---------------------------- MODULE Spec2Model ----------------------------
(***************************************************************************)
(* Model of the advanced suggestions engine                                *)
(* (src/app/services/adv_suggestions.py): the custom-rule evaluator, the   *)
(* six suggestion generators, the orchestrator generate_suggestions and    *)
(* the bulk-file serializer build_bulk_xlsx.                               *)
(*                                                                         *)
(* Units.  Python floats are modelled by integers in fixed point:          *)
(*   - money (spend, sales, cpc, bid)        : cents                       *)
(*   - fractions of the policy (acos_*, cvr_*, bid_multiplier,             *)
(*     bid_reduction_ratio, bid_increase_step): hundredths                 *)
(*   - counts (orders, clicks) and the percentages written to rows: plain  *)
(*     integers                                                            *)
(*   - the current percentage of a placement and the value of a            *)
(*     set_percentage rule, which the code truncates with int():           *)
(*     hundredths of a percent                                             *)
(*   - the values of a rule-evaluation data dict and the thresholds of     *)
(*     rule conditions: hundredths of the metric's unit                    *)
(* Quotients are kept exact (compared by cross multiplication) and         *)
(* round(x, 2) / round(x) are computed on the exact quotient, ties to the  *)
(* even neighbour.                                                         *)
(*                                                                         *)
(* Text.  A string is a sequence of chunks (TLA+ strings): a chunk is one  *)
(* whitespace character or a word.  Concatenation is \o, "" is <<>>.       *)
(*                                                                         *)
(* A suggestion keeps its category, severity, title, metrics and actions;  *)
(* the prose of its "detail" is left out.                                  *)
(*                                                                         *)
(* The worksheet of build_bulk_xlsx is the grid of the values given to     *)
(* ws.cell; fonts, fills, column widths and the xlsx encoding are left     *)
(* out.                                                                    *)
(***************************************************************************)
EXTENDS Integers, Sequences, FiniteSets, TLC

VARIABLES
    \* ---- one run of generate_suggestions -------------------------------
    search_terms,        \* analysis["search_terms_detail"]
    campaigns,           \* analysis["campaigns_table"]
    targets,             \* analysis["targets"]
    placements,          \* analysis["placements"]
    product_ads,         \* analysis["product_ads"]
    portfolios,          \* analysis["portfolios"]
    existing_exact_keywords, \* analysis["existing_exact_keywords"]
    thresholds,          \* the overrides the caller passes ({} for None)
    defaults,            \* the module-level DEFAULTS dict
    t,                   \* the effective threshold policy {**DEFAULTS, **thresholds}
    existing_exact,      \* the known-exact set (mutated by generator A)
    existing_negatives,  \* the known-negative key set
    suggestions,         \* the list built by generate_suggestions
    pc,                  \* position inside generate_suggestions
    \* ---- direct calls of the rule evaluator ----------------------------
    ev_data,             \* the metric snapshot
    ev_rules,            \* the rule list
    ev_cond,             \* the condition last given to _evaluate_condition
    ev_cond_res,         \* its result
    ev_match,            \* the result of _find_matching_rule
    ev_pc,
    \* ---- one call of build_bulk_xlsx ----------------------------------
    selected_suggestions, \* the argument
    bulk_rows,                \* the flattened row dicts
    bulk_ws,                  \* the worksheet: the cell values written, row by row
    bulk_pc,             \* position inside build_bulk_xlsx
    \* ---- direct calls of the generators -------------------------------
    calls                \* for each generator, the lists its calls returned

runVars == <<search_terms, campaigns, targets, placements, product_ads, portfolios,
             existing_exact_keywords, thresholds, defaults, t,
             existing_exact, existing_negatives, suggestions, pc>>
evVars  == <<ev_data, ev_rules, ev_cond, ev_cond_res, ev_match, ev_pc>>
bulkVars == <<selected_suggestions, bulk_rows, bulk_ws, bulk_pc>>
vars    == <<search_terms, campaigns, targets, placements, product_ads, portfolios,
             existing_exact_keywords, thresholds, defaults, t,
             existing_exact, existing_negatives, suggestions, pc,
             ev_data, ev_rules, ev_cond, ev_cond_res, ev_match, ev_pc,
             selected_suggestions, bulk_rows, bulk_ws, bulk_pc, calls>>

---------------------------------------------------------------------------
(* Bounds of the model *)

MaxRules == 2
MaxConds == 2
MaxTerms == 2
MaxPlacements == 2
MaxTargets == 2
MaxSelected == 2
MaxCalls == 2

---------------------------------------------------------------------------
(* Generic helpers *)

Min(a, b) == IF a <= b THEN a ELSE b
Max(a, b) == IF a >= b THEN a ELSE b

\* Sequences over S of length at most n
SeqUpTo(S, n) == UNION {[1..k -> S] : k \in 0..n}

\* dict.get(k, d)
Get(d, k, default) == IF k \in DOMAIN d THEN d[k] ELSE default

\* Python round() of the exact quotient n/d (d > 0): nearest integer, ties
\* to even.  round(x, 2) of a money amount is Round of the amount in cents.
Round(n, d) ==
    LET q == n \div d
        r == n % d
    IN  IF 2 * r < d THEN q
        ELSE IF 2 * r > d THEN q + 1
        ELSE IF q % 2 = 0 THEN q ELSE q + 1

---------------------------------------------------------------------------
(* Values found in metric snapshots and rule conditions *)

Num(n) == [k |-> "num", v |-> n]     \* an int/float (or numeric string)
NoneV  == [k |-> "none", v |-> 0]    \* None
StrV   == [k |-> "str", v |-> 0]     \* a string float() rejects, e.g. "abc"

\* float(x) succeeds
Coercible(x) == x.k = "num"

---------------------------------------------------------------------------
(* CUSTOM RULES EVALUATION *)

EvaluateCondition_NoDefault(data, condition) ==
    LET metric   == Get(condition, "metric", "")
        operator == Get(condition, "operator", ">")
        value    == Get(condition, "value", Num(0))
    IN  IF metric \notin DOMAIN data \/ data[metric] = NoneV THEN FALSE
        ELSE IF ~(Coercible(data[metric]) /\ Coercible(value)) THEN FALSE
        ELSE CASE operator = ">"  -> data[metric].v > value.v
               [] operator = ">=" -> data[metric].v >= value.v
               [] operator = "<"  -> data[metric].v < value.v
               [] operator = "<=" -> data[metric].v <= value.v
               [] operator = "==" -> data[metric].v = value.v
               [] operator = "!=" -> data[metric].v # value.v
               [] OTHER -> FALSE

EvaluateCondition_GeAsGt(data, condition) ==
    LET metric   == Get(condition, "metric", "")
        operator == Get(condition, "operator", ">")
        value    == Get(condition, "value", Num(0))
        got      == Get(data, metric, Num(0))
        actual   == IF got = NoneV THEN Num(0) ELSE got
    IN  IF ~(Coercible(actual) /\ Coercible(value)) THEN FALSE
        ELSE CASE operator = ">"  -> actual.v > value.v
               [] operator = ">=" -> actual.v > value.v
               [] operator = "<"  -> actual.v < value.v
               [] operator = "<=" -> actual.v <= value.v
               [] operator = "==" -> actual.v = value.v
               [] operator = "!=" -> actual.v # value.v
               [] OTHER -> FALSE

\* _evaluate_condition(data, condition)
EvaluateCondition(data, condition) ==
    LET metric   == Get(condition, "metric", "")
        operator == Get(condition, "operator", ">")
        value    == Get(condition, "value", Num(0))
        got      == Get(data, metric, Num(0))
        actual   == IF got = NoneV THEN Num(0) ELSE got
    IN  IF ~(Coercible(actual) /\ Coercible(value)) THEN FALSE
        ELSE CASE operator = ">"  -> actual.v > value.v
               [] operator = ">=" -> actual.v >= value.v
               [] operator = "<"  -> actual.v < value.v
               [] operator = "<=" -> actual.v <= value.v
               [] operator = "==" -> actual.v = value.v
               [] operator = "!=" -> actual.v # value.v
               [] OTHER -> FALSE

EvaluateRule_IgnoreEnabled(data, rule) ==
    LET conditions == Get(rule, "conditions", <<>>)
    IN  IF conditions = <<>> THEN FALSE
        ELSE \A i \in 1..Len(conditions) : EvaluateCondition(data, conditions[i])

\* _evaluate_rule(data, rule)
EvaluateRule(data, rule) ==
    IF ~Get(rule, "enabled", TRUE) THEN FALSE
    ELSE LET conditions == Get(rule, "conditions", <<>>)
         IN  IF conditions = <<>> THEN FALSE
             ELSE \A i \in 1..Len(conditions) :
                      EvaluateCondition(data, conditions[i])

\* The value returned when no rule matches (Python None)
NoRule == [none |-> TRUE]

RECURSIVE FindFrom(_, _, _)
FindFrom(data, rules, i) ==
    IF i > Len(rules) THEN NoRule
    ELSE IF EvaluateRule(data, rules[i]) THEN rules[i]
    ELSE FindFrom(data, rules, i + 1)

\* _find_matching_rule(data, rules)
FindMatchingRule(data, rules) == FindFrom(data, rules, 1)

---------------------------------------------------------------------------
(* Text helpers *)

IsSpace(c) == c \in {" ", "\t"}

\* str.lower() of one chunk
LowerChunk(c) ==
    CASE c = "Great" -> "great"
      [] c = "GREAT" -> "great"
      [] c = "Keyword" -> "keyword"
      [] c = "Bad" -> "bad"
      [] c = "Exact" -> "exact"
      [] c = "EXACT" -> "exact"
      [] c = "Match" -> "match"
      [] c = "Broad" -> "broad"
      [] c = "Enabled" -> "enabled"
      [] c = "Product Targeting" -> "product targeting"
      [] OTHER -> c

Lower(text) == [i \in 1..Len(text) |-> LowerChunk(text[i])]

RECURSIVE LStrip(_)
LStrip(text) ==
    IF text = <<>> THEN text
    ELSE IF IsSpace(Head(text)) THEN LStrip(Tail(text)) ELSE text

RECURSIVE RStrip(_)
RStrip(text) ==
    IF text = <<>> THEN text
    ELSE IF IsSpace(text[Len(text)]) THEN RStrip(SubSeq(text, 1, Len(text) - 1))
    ELSE text

\* str.strip()
Strip(text) == RStrip(LStrip(text))

\* re.sub(r"\s+", " ", text)
RECURSIVE CollapseSpaces(_)
CollapseSpaces(text) ==
    IF text = <<>> THEN <<>>
    ELSE IF IsSpace(Head(text)) THEN <<" ">> \o CollapseSpaces(LStrip(text))
    ELSE <<Head(text)>> \o CollapseSpaces(Tail(text))

NormKw_NoLower(text) == CollapseSpaces(Strip(text))

NormKw_NoCollapse(text) == Lower(Strip(text))

\* _norm_kw(text)
NormKw(text) == CollapseSpaces(Lower(Strip(text)))

\* The ASIN-shaped words (B0 followed by eight of [A-Z0-9]) of the model
AsinWords == {"B0TESTASIN", "B0TEST1234"}

\* _extract_asin(text): the first ASIN-shaped word of the text, else ""
RECURSIVE ExtractAsin(_)
ExtractAsin(text) ==
    IF text = <<>> THEN <<>>
    ELSE IF Head(text) \in AsinWords THEN <<Head(text)>>
    ELSE ExtractAsin(Tail(text))

\* text[:60]; the texts of the model are shorter than 60 characters
KwDisplayLen == 60
Prefix(text, n) == SubSeq(text, 1, Min(Len(text), n))

---------------------------------------------------------------------------
(* Bulk row helpers *)

\* _sp_row(**kw)
SpRow(kw) == kw @@ ("Product" :> "Sponsored Products")

---------------------------------------------------------------------------
(* Default thresholds *)

NoRules == [c \in {} |-> <<>>]

DEFAULTS ==
    [acos_ineffective     |-> 35,
     acos_target          |-> 30,
     spend_campaign_pause |-> 1500,
     spend_target_pause   |-> 1000,
     clicks_negative      |-> 10,
     spend_negative       |-> 500,
     negative_match_type  |-> "Negative Exact",
     ctr_negative         |-> 20,     \* 0.002, in ten-thousandths
     orders_create_exact  |-> 2,
     cvr_create_exact     |-> 20,
     bid_multiplier       |-> 110,
     cvr_bid_increase     |-> 30,
     acos_bid_increase    |-> 20,
     acos_target_increase |-> 25,
     bid_increase_step    |-> 15,
     orders_bid_increase  |-> 3,
     clicks_bid_increase  |-> 10,
     max_placement_pct    |-> 900,
     bid_reduction_ratio  |-> 50,
     acos_pause           |-> 100,
     custom_rules         |-> NoRules]

\* {**DEFAULTS, **(thresholds or {})}
Merge(base, overrides) == overrides @@ base

\* (t.get("custom_rules") or {}).get(category, [])
CustomRules(pol, category) == Get(Get(pol, "custom_rules", NoRules), category, <<>>)

---------------------------------------------------------------------------
(* Lookups built by generate_suggestions *)

\* {c["campaign_id"]: c for c in campaigns}.get(cid, {})
RECURSIVE CampByIdFrom(_, _, _)
CampByIdFrom(camps, cid, i) ==
    IF i = 0 THEN [x \in {} |-> 0]
    ELSE IF camps[i].campaign_id = cid THEN camps[i]
    ELSE CampByIdFrom(camps, cid, i - 1)

CampById(camps, cid) == CampByIdFrom(camps, cid, Len(camps))

HasCamp(camps, cid) == \E i \in 1..Len(camps) : camps[i].campaign_id = cid

\* camp_asin.get(cid, "") / camp_sku.get(cid, ""): the first non-empty
\* asin / sku among the product ads of the campaign
RECURSIVE FirstField(_, _, _, _)
FirstField(pas, cid, field, i) ==
    IF i > Len(pas) THEN <<>>
    ELSE IF pas[i].campaign_id = cid /\ Get(pas[i], field, <<>>) # <<>>
         THEN pas[i][field]
    ELSE FirstField(pas, cid, field, i + 1)

CampAsin(pas, cid) == FirstField(pas, cid, "asin", 1)
CampSku(pas, cid)  == FirstField(pas, cid, "sku", 1)

\* camp_all_skus.get(cid, []): the distinct skus of the campaign, in order
RECURSIVE AllSkusFrom(_, _, _, _)
AllSkusFrom(pas, cid, i, acc) ==
    IF i > Len(pas) THEN acc
    ELSE LET sku == Get(pas[i], "sku", <<>>)
         IN  IF pas[i].campaign_id = cid /\ sku # <<>>
                /\ ~\E j \in 1..Len(acc) : acc[j] = sku
             THEN AllSkusFrom(pas, cid, i + 1, Append(acc, sku))
             ELSE AllSkusFrom(pas, cid, i + 1, acc)

CampAllSkus(pas, cid) == AllSkusFrom(pas, cid, 1, <<>>)

\* camp_portfolio.get(cid, ""): the portfolio_id of the last campaign with
\* that id that has a non-empty one
RECURSIVE CampPortfolioFrom(_, _, _)
CampPortfolioFrom(camps, cid, i) ==
    IF i = 0 THEN <<>>
    ELSE IF camps[i].campaign_id = cid /\ Get(camps[i], "portfolio_id", <<>>) # <<>>
         THEN camps[i].portfolio_id
    ELSE CampPortfolioFrom(camps, cid, i - 1)

CampPortfolio(camps, cid) == CampPortfolioFrom(camps, cid, Len(camps))

\* portfolio_by_id.get(pid, "")
RECURSIVE PortfolioNameFrom(_, _, _)
PortfolioNameFrom(pfs, pid, i) ==
    IF i = 0 THEN <<>>
    ELSE IF pfs[i].portfolio_id = pid THEN pfs[i].name
    ELSE PortfolioNameFrom(pfs, pid, i - 1)

PortfolioById(pfs, pid) == PortfolioNameFrom(pfs, pid, Len(pfs))

\* targets_per_campaign.get(cid, 0)
TargetsPerCampaign(tgts, cid) ==
    Cardinality({i \in 1..Len(tgts) : tgts[i].campaign_id = cid})

\* targets_by_camp.get(cid, []): the enabled targets of the campaign that
\* have a positive bid, in input order
TargetsByCamp(tgts, cid) ==
    SelectSeq(tgts, LAMBDA g : /\ g.campaign_id = cid
                               /\ Lower(Get(g, "state", <<>>)) = <<"enabled">>
                               /\ Get(g, "bid", 0) > 0)


---------------------------------------------------------------------------
(* Metric helpers shared by the generators *)

\* round(a / b * 100, 2) in hundredths of a percent (b # 0)
Pct(a, b) == Round(a * 10000, b)

\* orders / clicks < thr (thr in hundredths); the quotient is 0 without clicks
CvrBelow(orders, clicks, thr) ==
    IF clicks = 0 THEN 0 < thr ELSE orders * 100 < thr * clicks

---------------------------------------------------------------------------
(* A) CREATE EXACT CAMPAIGNS FROM SEARCH TERMS *)

\* _is_non_exact_source(source_type)
IsNonExactSource(source_type) ==
    LET s == Strip(Lower(source_type))
    IN  s \notin {<<"exact">>, <<"exact", " ", "match">>}

\* The data dict built from a search-term row (lines 255-265 and 427-437)
SearchTermData(r) ==
    [orders      |-> Num(100 * r.orders),
     clicks      |-> Num(100 * r.clicks),
     spend       |-> Num(r.spend),
     sales       |-> Num(r.sales),
     cvr         |-> Num(IF r.clicks > 0 THEN Pct(r.orders, r.clicks) ELSE 0),
     acos        |-> Num(IF r.sales > 0 THEN Pct(r.spend, r.sales) ELSE 0),
     ctr         |-> Num(Get(r, "ctr", 0)),
     cpc         |-> Num(Get(r, "cpc", 0)),
     impressions |-> Num(100 * Get(r, "impressions", 0))]

ExactGate_OrdersAtLeast(r, pol) ==
    \/ FindMatchingRule(SearchTermData(r), CustomRules(pol, "exact")) # NoRule
    \/ /\ ~(r.orders < pol.orders_create_exact)
       /\ ~CvrBelow(r.orders, r.clicks, pol.cvr_create_exact)

ExactGate_RuleAndDefault(r, pol) ==
    /\ FindMatchingRule(SearchTermData(r), CustomRules(pol, "exact")) # NoRule
    /\ ~(r.orders <= pol.orders_create_exact)
    /\ ~CvrBelow(r.orders, r.clicks, pol.cvr_create_exact)

\* Lines 268-279: the row passes the custom rule or else the default thresholds
ExactGate(r, pol) ==
    \/ FindMatchingRule(SearchTermData(r), CustomRules(pol, "exact")) # NoRule
    \/ /\ ~(r.orders <= pol.orders_create_exact)
       /\ ~CvrBelow(r.orders, r.clicks, pol.cvr_create_exact)

\* Lines 269-273: the bid multiplier in force for the row
ExactBidMultiplier(r, pol) ==
    LET matched_rule == FindMatchingRule(SearchTermData(r), CustomRules(pol, "exact"))
        bid_multiplier == Get(pol, "bid_multiplier", 110)
    IN  IF matched_rule # NoRule
        THEN Get(Get(matched_rule, "action", <<>>), "bid_multiplier", bid_multiplier)
        ELSE bid_multiplier

NewCampId_FromSource(r, new_camp_name) == r.campaign_id

\* Line 322: new_camp_id = new_camp_name
NewCampId(r, new_camp_name) == new_camp_name

ExactNegativeCampaignId_New(r, new_camp_id) == new_camp_id

\* Line 373: the negative keyword is created in the source campaign
ExactNegativeCampaignId(r, new_camp_id) == r.campaign_id

\* Lines 392 and 466: f"https://www.amazon.com/s?k={term.replace(' ', '+')}"
AmazonUrl(term) ==
    <<"https://www.amazon.com/s?k=">>
        \o [i \in 1..Len(term) |-> IF term[i] = " " THEN "+" ELSE term[i]]

\* Lines 289-403: the suggestion built for a row that passed every check
ExactSuggestion(r, camps, pas, pfs, pol) ==
    LET spend  == r.spend
        sales  == r.sales
        clicks == r.clicks
        acos   == IF sales # 0 THEN Pct(spend, sales) ELSE 0
        cpc    == IF clicks # 0 THEN Round(spend, clicks) ELSE 50
        suggested_bid == Round(cpc * ExactBidMultiplier(r, pol), 100)
        camp   == CampById(camps, r.campaign_id)
        camp_budget == Get(camp, "daily_budget", 1000)
        new_budget  == Round(Max(1000, camp_budget), 2)
        source_cid  == r.campaign_id
        asin1  == CampAsin(pas, source_cid)
        asin2  == IF asin1 # <<>> THEN asin1
                  ELSE ExtractAsin(Get(r, "campaign_name", <<>>))
        asin   == IF asin2 # <<>> THEN asin2
                  ELSE ExtractAsin(Get(camp, "name", <<>>))
        sku    == CampSku(pas, source_cid)
        available_skus == CampAllSkus(pas, source_cid)
        source_portfolio_id   == CampPortfolio(camps, source_cid)
        source_portfolio_name == PortfolioById(pfs, source_portfolio_id)
        kw_display == Prefix(r.search_term, KwDisplayLen)
        new_camp_name == IF asin # <<>>
                         THEN <<"SP Kw Ex", " ">> \o kw_display \o <<" ", "-", " ">> \o asin
                         ELSE <<"SP Kw Ex", " ">> \o kw_display
        new_ag_name == new_camp_name
        new_camp_id == NewCampId(r, new_camp_name)
        new_ag_id   == new_ag_name
        actions == <<
            SpRow([Entity |-> "Campaign", Operation |-> "Create", State |-> "enabled"]
                  @@ ("Campaign ID" :> new_camp_id) @@ ("Campaign Name" :> new_camp_name)
                  @@ ("Portfolio ID" :> source_portfolio_id)
                  @@ ("Start Date" :> "today") @@ ("Targeting Type" :> "Manual")
                  @@ ("Daily Budget" :> new_budget)
                  @@ ("Bidding Strategy" :> "Dynamic bids - down only")),
            SpRow([Entity |-> "Ad Group", Operation |-> "Create", State |-> "enabled"]
                  @@ ("Campaign ID" :> new_camp_id) @@ ("Ad Group ID" :> new_ag_id)
                  @@ ("Campaign Name" :> new_camp_name) @@ ("Ad Group Name" :> new_ag_name)
                  @@ ("Ad Group Default Bid" :> suggested_bid)),
            SpRow([Entity |-> "Product Ad", Operation |-> "Create", State |-> "enabled",
                   SKU |-> sku, ASIN |-> asin]
                  @@ ("Campaign ID" :> new_camp_id) @@ ("Ad Group ID" :> new_ag_id)
                  @@ ("Campaign Name" :> new_camp_name) @@ ("Ad Group Name" :> new_ag_name)),
            SpRow([Entity |-> "Keyword", Operation |-> "Create", State |-> "enabled",
                   Bid |-> suggested_bid]
                  @@ ("Campaign ID" :> new_camp_id) @@ ("Ad Group ID" :> new_ag_id)
                  @@ ("Campaign Name" :> new_camp_name) @@ ("Ad Group Name" :> new_ag_name)
                  @@ ("Keyword Text" :> r.search_term) @@ ("Match Type" :> "Exact")),
            SpRow([Entity |-> "Campaign Negative Keyword", Operation |-> "Create",
                   State |-> "enabled"]
                  @@ ("Campaign ID" :> ExactNegativeCampaignId(r, new_camp_id))
                  @@ ("Campaign Name" :> r.campaign_name)
                  @@ ("Keyword Text" :> r.search_term) @@ ("Match Type" :> "Negative Exact"))
          >>
    IN  [category |-> "Create Exact Campaign",
         severity |-> "medium",
         title    |-> <<"Create exact campaign for '">> \o kw_display
                      \o <<"' - ", ToString(r.orders), " orders, CVR ",
                           ToString(IF clicks # 0 THEN Round(r.orders * 100, clicks) ELSE 0),
                           "%, ACOS ", ToString(Round(acos, 100)), "%">>,
         \* cvr is round(cvr * 100, 1), in tenths of a percent
         metrics  |-> [search_term |-> r.search_term, orders |-> r.orders,
                       clicks |-> clicks,
                       cvr |-> IF clicks # 0 THEN Round(r.orders * 1000, clicks) ELSE 0,
                       acos |-> acos, spend |-> spend,
                       sales |-> sales, suggested_bid |-> suggested_bid,
                       asin |-> asin, sku |-> sku, available_skus |-> available_skus,
                       source_portfolio_id |-> source_portfolio_id,
                       source_portfolio_name |-> source_portfolio_name,
                       amazon_url |-> AmazonUrl(r.search_term)],
         actions  |-> actions]

ExactStep_NoDedup(r, acc, camps, pas, pfs, pol) ==
    IF ~IsNonExactSource(Get(r, "source_type", <<>>)) THEN acc
    ELSE IF ~ExactGate(r, pol) THEN acc
    ELSE LET term_norm == NormKw(r.search_term)
         IN  IF term_norm = <<>> THEN acc
             ELSE [out   |-> Append(acc.out, ExactSuggestion(r, camps, pas, pfs, pol)),
                   exact |-> acc.exact \cup {term_norm}]

ExactStep_NoRecord(r, acc, camps, pas, pfs, pol) ==
    IF ~IsNonExactSource(Get(r, "source_type", <<>>)) THEN acc
    ELSE IF ~ExactGate(r, pol) THEN acc
    ELSE LET term_norm == NormKw(r.search_term)
         IN  IF term_norm = <<>> THEN acc
             ELSE IF term_norm \in acc.exact THEN acc
             ELSE [out   |-> Append(acc.out, ExactSuggestion(r, camps, pas, pfs, pol)),
                   exact |-> acc.exact]

\* Lines 245-403: one iteration of the loop of _create_exact_campaigns;
\* acc.out is the list built so far, acc.exact the known-exact set
ExactStep(r, acc, camps, pas, pfs, pol) ==
    IF ~IsNonExactSource(Get(r, "source_type", <<>>)) THEN acc
    ELSE IF ~ExactGate(r, pol) THEN acc
    ELSE LET term_norm == NormKw(r.search_term)
         IN  IF term_norm = <<>> THEN acc
             ELSE IF term_norm \in acc.exact THEN acc
             ELSE [out   |-> Append(acc.out, ExactSuggestion(r, camps, pas, pfs, pol)),
                   exact |-> acc.exact \cup {term_norm}]

RECURSIVE ExactLoop(_, _, _, _, _, _, _)
ExactLoop(rows, i, acc, camps, pas, pfs, pol) ==
    IF i > Len(rows) THEN acc
    ELSE ExactLoop(rows, i + 1, ExactStep(rows[i], acc, camps, pas, pfs, pol),
                   camps, pas, pfs, pol)

\* _create_exact_campaigns(...): the returned list and the set as it leaves it
CreateExactCampaigns(rows, exact, camps, pas, pfs, pol) ==
    ExactLoop(rows, 1, [out |-> <<>>, exact |-> exact], camps, pas, pfs, pol)

---------------------------------------------------------------------------
(* B) SEARCH TERM NEGATIVES *)

NegGate_RuleAndDefault(r, pol) ==
    /\ FindMatchingRule(SearchTermData(r), CustomRules(pol, "negatives")) # NoRule
    /\ r.clicks >= pol.clicks_negative /\ r.orders = 0

\* Lines 440-447: the row passes the custom rule or else the default thresholds
NegGate(r, pol) ==
    \/ FindMatchingRule(SearchTermData(r), CustomRules(pol, "negatives")) # NoRule
    \/ r.clicks >= pol.clicks_negative /\ r.orders = 0

\* Lines 441-445: the match type in force for the row
NegMatchType(r, pol) ==
    LET matched_rule == FindMatchingRule(SearchTermData(r), CustomRules(pol, "negatives"))
    IN  IF matched_rule # NoRule
        THEN Get(Get(matched_rule, "action", <<>>), "match_type", "Negative Exact")
        ELSE Get(pol, "negative_match_type", "Negative Exact")

\* Line 451: f"{cid}|{_norm_kw(term)}"
DedupKey(cid, term) == cid \o <<"|">> \o NormKw(term)

\* Lines 456-478
NegSuggestion(r, pol) ==
    [category |-> "Search Term Negatives",
     severity |-> "high",
     title    |-> <<"Negative '">> \o Prefix(r.search_term, KwDisplayLen)
                  \o <<"' in '">> \o r.campaign_name
                  \o <<"' - ", ToString(r.clicks), " clicks, $", ToString(r.spend),
                       ", 0 orders">>,
     metrics  |-> [search_term |-> r.search_term, clicks |-> r.clicks,
                   spend |-> r.spend, source |-> Get(r, "source_type", <<>>),
                   cpc |-> Get(r, "cpc", 0),
                   amazon_url |-> AmazonUrl(r.search_term)],
     actions  |-> << SpRow([Entity |-> "Campaign Negative Keyword",
                            Operation |-> "Create", State |-> "enabled"]
                           @@ ("Campaign ID" :> r.campaign_id)
                           @@ ("Campaign Name" :> r.campaign_name)
                           @@ ("Keyword Text" :> r.search_term)
                           @@ ("Match Type" :> NegMatchType(r, pol))) >>]

NegStep_NoSeen(r, acc, negatives, pol) ==
    IF ~IsNonExactSource(Get(r, "source_type", <<>>)) THEN acc
    ELSE IF ~NegGate(r, pol) THEN acc
    ELSE LET dedup_key == DedupKey(r.campaign_id, r.search_term)
         IN  IF dedup_key \in negatives THEN acc
             ELSE [out  |-> Append(acc.out, NegSuggestion(r, pol)),
                   seen |-> acc.seen \cup {dedup_key}]

\* Lines 416-478: one iteration of the loop of _negative_search_terms
NegStep(r, acc, negatives, pol) ==
    IF ~IsNonExactSource(Get(r, "source_type", <<>>)) THEN acc
    ELSE IF ~NegGate(r, pol) THEN acc
    ELSE LET dedup_key == DedupKey(r.campaign_id, r.search_term)
         IN  IF dedup_key \in negatives \/ dedup_key \in acc.seen THEN acc
             ELSE [out  |-> Append(acc.out, NegSuggestion(r, pol)),
                   seen |-> acc.seen \cup {dedup_key}]

RECURSIVE NegLoop(_, _, _, _, _)
NegLoop(rows, i, acc, negatives, pol) ==
    IF i > Len(rows) THEN acc
    ELSE NegLoop(rows, i + 1, NegStep(rows[i], acc, negatives, pol), negatives, pol)

\* _negative_search_terms(search_terms, existing_negatives, t)
NegativeSearchTerms(rows, negatives, pol) ==
    NegLoop(rows, 1, [out |-> <<>>, seen |-> {}], negatives, pol).out


---------------------------------------------------------------------------
(* C) PAUSE CAMPAIGNS *)

\* Lines 497-508
CampaignPauseData(c) ==
    [spend       |-> Num(c.spend),
     orders      |-> Num(100 * c.orders),
     clicks      |-> Num(100 * c.clicks),
     sales       |-> Num(c.sales),
     impressions |-> Num(100 * c.impressions),
     acos        |-> Num(IF c.sales > 0 THEN Pct(c.spend, c.sales) ELSE 0),
     cvr         |-> Num(IF c.clicks > 0 THEN Pct(c.orders, c.clicks) ELSE 0),
     ctr         |-> Num(Get(c, "ctr", 0)),
     cpc         |-> Num(Get(c, "cpc", 0)),
     roas        |-> Num(Get(c, "roas", 0))]

PauseCampaignGate_SpendOnly(c, pol) ==
    \/ FindMatchingRule(CampaignPauseData(c), CustomRules(pol, "pause")) # NoRule
    \/ ~(c.spend < pol.spend_campaign_pause)

PauseCampaignGate_RuleAndDefault(c, pol) ==
    /\ FindMatchingRule(CampaignPauseData(c), CustomRules(pol, "pause")) # NoRule
    /\ ~(c.spend < pol.spend_campaign_pause \/ c.orders > 0)

\* Lines 511-515
PauseCampaignGate(c, pol) ==
    \/ FindMatchingRule(CampaignPauseData(c), CustomRules(pol, "pause")) # NoRule
    \/ ~(c.spend < pol.spend_campaign_pause \/ c.orders > 0)

\* Lines 517-535
PauseCampaignSuggestion(c) ==
    [category |-> "Pause Campaigns",
     severity |-> "high",
     title    |-> <<"Pause '">> \o Prefix(c.name, 50)
                  \o <<"' - $", ToString(c.spend), " spend, 0 orders">>,
     metrics  |-> [spend |-> c.spend, orders |-> c.orders, clicks |-> c.clicks,
                   impressions |-> c.impressions, cpc |-> Get(c, "cpc", 0)],
     actions  |-> << SpRow([Entity |-> "Campaign", Operation |-> "Update",
                            State |-> "paused"]
                           @@ ("Campaign ID" :> c.campaign_id)
                           @@ ("Campaign Name" :> c.name)) >>]

RECURSIVE PauseCampaignsFrom(_, _, _, _)
PauseCampaignsFrom(camps, i, out, pol) ==
    IF i > Len(camps) THEN out
    ELSE IF PauseCampaignGate(camps[i], pol)
         THEN PauseCampaignsFrom(camps, i + 1,
                                 Append(out, PauseCampaignSuggestion(camps[i])), pol)
    ELSE PauseCampaignsFrom(camps, i + 1, out, pol)

\* _pause_campaigns(campaigns, t)
PauseCampaigns(camps, pol) == PauseCampaignsFrom(camps, 1, <<>>, pol)

---------------------------------------------------------------------------
(* D) PAUSE TARGETS *)

\* Lines 554-564
TargetPauseData(g) ==
    [spend       |-> Num(g.spend),
     orders      |-> Num(100 * g.orders),
     clicks      |-> Num(100 * g.clicks),
     sales       |-> Num(Get(g, "sales", 0)),
     impressions |-> Num(100 * Get(g, "impressions", 0)),
     acos        |-> Num(IF Get(g, "sales", 0) > 0 THEN Pct(g.spend, g.sales) ELSE 0),
     cvr         |-> Num(IF g.clicks > 0 THEN Pct(g.orders, g.clicks) ELSE 0),
     cpc         |-> Num(Get(g, "cpc", 0)),
     bid         |-> Num(Get(g, "bid", 0))]

PauseTargetGate_RuleAndDefault(g, pol) ==
    /\ FindMatchingRule(TargetPauseData(g), CustomRules(pol, "pause")) # NoRule
    /\ ~(g.spend < pol.spend_target_pause \/ g.orders > 0)

\* Lines 567-571
PauseTargetGate(g, pol) ==
    \/ FindMatchingRule(TargetPauseData(g), CustomRules(pol, "pause")) # NoRule
    \/ ~(g.spend < pol.spend_target_pause \/ g.orders > 0)

\* Line 575: keyword_text or product_targeting_expression or "?"
TargetLabel(g) ==
    IF g.keyword_text # <<>> THEN g.keyword_text
    ELSE IF g.product_targeting_expression # <<>> THEN g.product_targeting_expression
    ELSE <<"?">>

\* Lines 573-624: tpc is targets_per_campaign.get(cid, 0)
PauseTargetSuggestion(g, tpc) ==
    LET cid == g.campaign_id
        is_sole_target == tpc <= 1
        entity == g.entity
        base == SpRow([Entity |-> entity, Operation |-> "Update", State |-> "paused"]
                      @@ ("Campaign ID" :> cid) @@ ("Ad Group ID" :> g.ad_group_id))
        action == IF entity = "Keyword"
                  THEN ("Keyword Text" :> g.keyword_text)
                       @@ ("Match Type" :> g.match_type) @@ base
                  ELSE ("Product Targeting Expression" :> g.product_targeting_expression)
                       @@ base
    IN  IF is_sole_target
        THEN [category |-> "Pause Targets",
              severity |-> "high",
              title    |-> <<"Pause campaign '">> \o Prefix(g.campaign_name, 40)
                           \o <<"' (sole target '">> \o Prefix(TargetLabel(g), 30)
                           \o <<"') - $", ToString(g.spend), ", 0 orders">>,
              metrics  |-> [target |-> TargetLabel(g), spend |-> g.spend,
                            clicks |-> g.clicks, orders |-> 0],
              actions  |-> << SpRow([Entity |-> "Campaign", Operation |-> "Update",
                                     State |-> "paused"]
                                    @@ ("Campaign ID" :> cid)
                                    @@ ("Campaign Name" :> g.campaign_name)) >>]
        ELSE [category |-> "Pause Targets",
              severity |-> "high",
              title    |-> <<"Pause ", LowerChunk(entity), " '">>
                           \o Prefix(TargetLabel(g), 40)
                           \o <<"' in '">> \o Prefix(g.campaign_name, 30)
                           \o <<"' - $", ToString(g.spend), ", 0 orders">>,
              metrics  |-> [target |-> TargetLabel(g), spend |-> g.spend,
                            clicks |-> g.clicks, orders |-> 0,
                            campaign |-> g.campaign_name],
              actions  |-> << action >>]

RECURSIVE PauseTargetsFrom(_, _, _, _, _)
PauseTargetsFrom(tgts, all, i, out, pol) ==
    IF i > Len(tgts) THEN out
    ELSE IF PauseTargetGate(tgts[i], pol)
         THEN PauseTargetsFrom(tgts, all, i + 1,
                  Append(out, PauseTargetSuggestion(tgts[i],
                                  TargetsPerCampaign(all, tgts[i].campaign_id))), pol)
    ELSE PauseTargetsFrom(tgts, all, i + 1, out, pol)

\* _pause_targets(targets, targets_per_campaign, t), the counts being those
\* generate_suggestions takes over the list `all`
PauseTargets(tgts, all, pol) == PauseTargetsFrom(tgts, all, 1, <<>>, pol)


---------------------------------------------------------------------------
(* Helpers shared by E) and F) *)

\* int(x) of a value kept in hundredths: truncation toward zero
IntOf(h) == IF h >= 0 THEN h \div 100 ELSE -((-h) \div 100)

\* plc_by_camp[cid]: the placement rows of the campaign, in input order
PlcByCamp(plcs, cid) == SelectSeq(plcs, LAMBDA p : p.campaign_id = cid)

\* The keys of plc_by_camp in insertion order
RECURSIVE CampOrderFrom(_, _, _)
CampOrderFrom(plcs, i, acc) ==
    IF i > Len(plcs) THEN acc
    ELSE IF \E j \in 1..Len(acc) : acc[j] = plcs[i].campaign_id
         THEN CampOrderFrom(plcs, i + 1, acc)
    ELSE CampOrderFrom(plcs, i + 1, Append(acc, plcs[i].campaign_id))

CampOrder(plcs) == CampOrderFrom(plcs, 1, <<>>)

AcosKey_Plain(p) == p.acos

\* The key of min(): x["acos"] if x["acos"] > 0 else 9999
AcosKey(p) == IF p.acos > 0 THEN p.acos ELSE 999900

\* min(ps, key=AcosKey): the first element with the least key; ps # <<>>
MinByAcos(ps) ==
    LET i == CHOOSE i \in 1..Len(ps) :
                 /\ \A j \in 1..Len(ps) : AcosKey(ps[i]) <= AcosKey(ps[j])
                 /\ \A j \in 1..(i - 1) : AcosKey(ps[j]) > AcosKey(ps[i])
    IN  ps[i]

\* Lines 734-750 and 891-907: the bid update row of a target
TargetBidRow(g, cid, camp_name, new_bid) ==
    LET base == SpRow([Entity |-> g.entity, Operation |-> "Update",
                       Bid |-> new_bid, State |-> "enabled"]
                      @@ ("Campaign ID" :> cid) @@ ("Ad Group ID" :> g.ad_group_id)
                      @@ ("Campaign Name" :> camp_name)
                      @@ ("Ad Group Name" :> Get(g, "ad_group_name", <<>>)))
    IN  IF g.entity = "Keyword"
        THEN ("Keyword ID" :> Get(g, "keyword_id", <<>>))
             @@ ("Keyword Text" :> g.keyword_text)
             @@ ("Match Type" :> g.match_type) @@ base
        ELSE ("Product Targeting ID" :> Get(g, "product_targeting_id", <<>>))
             @@ ("Product Targeting Expression" :> g.product_targeting_expression)
             @@ base

\* Lines 783-788 and 923-929: the percentage update row of a placement
PlacementRow(cid, camp_name, placement_name, new_pct) ==
    SpRow([Entity |-> "Bidding Adjustment", Operation |-> "Update",
           Placement |-> placement_name, Percentage |-> new_pct]
          @@ ("Campaign ID" :> cid) @@ ("Campaign Name" :> camp_name))

---------------------------------------------------------------------------
(* E) PLACEMENT OPTIMIZATION *)

\* Lines 665-676
PlacementData(p) ==
    [acos        |-> Num(p.acos),
     spend       |-> Num(p.spend),
     sales       |-> Num(Get(p, "sales", 0)),
     clicks      |-> Num(100 * Get(p, "clicks", 0)),
     orders      |-> Num(100 * Get(p, "orders", 0)),
     impressions |-> Num(100 * Get(p, "impressions", 0)),
     percentage  |-> Num(100 * IntOf(Get(p, "percentage", 0))),
     cvr         |-> Num(Get(p, "cvr", 0)),
     ctr         |-> Num(Get(p, "ctr", 0)),
     cpc         |-> Num(Get(p, "cpc", 0))]

PlacementRule(p, pol) == FindMatchingRule(PlacementData(p), CustomRules(pol, "placement"))

PlacementFlagged_RuleAndDefault(p, pol) ==
    /\ PlacementRule(p, pol) # NoRule
    /\ p.acos > 100 * pol.acos_ineffective

\* Lines 679-687: a custom rule matched, or else the ACOS fraction exceeds
\* the default threshold
PlacementFlagged(p, pol) ==
    \/ PlacementRule(p, pol) # NoRule
    \/ p.acos > 100 * pol.acos_ineffective

Ineffective_AnyPct(cps, pol) ==
    LET idx == SelectSeq([i \in 1..Len(cps) |-> i],
                         LAMBDA i : /\ cps[i].spend > 0
                                    /\ PlacementFlagged(cps[i], pol))
    IN  [k \in 1..Len(idx) |-> <<cps[idx[k]], PlacementRule(cps[idx[k]], pol)>>]

\* Lines 660-691: the list `ineffective` of (placement, rule) pairs
Ineffective(cps, pol) ==
    LET idx == SelectSeq([i \in 1..Len(cps) |-> i],
                         LAMBDA i : /\ cps[i].spend > 0
                                    /\ PlacementFlagged(cps[i], pol)
                                    /\ IntOf(Get(cps[i], "percentage", 0)) > 0)
    IN  [k \in 1..Len(idx) |-> <<cps[idx[k]], PlacementRule(cps[idx[k]], pol)>>]

\* Lines 660-691: the list `effective`
Effective(cps, pol) ==
    SelectSeq(cps, LAMBDA p : p.spend > 0 /\ ~PlacementFlagged(p, pol))

\* ineffective_map[name]: the last pair of the list with that placement name
InIneffectiveMap(ineff, name) == \E k \in 1..Len(ineff) : ineff[k][1].placement = name

IneffectiveMap(ineff, name) ==
    LET k == CHOOSE k \in 1..Len(ineff) :
                 /\ ineff[k][1].placement = name
                 /\ \A j \in (k + 1)..Len(ineff) : ineff[j][1].placement # name
    IN  ineff[k]

\* Lines 760-772: the new percentage of a placement found in ineffective_map;
\* the rule's value is kept in hundredths of a percent
IneffectivePct(matched_rule) ==
    IF matched_rule # NoRule
    THEN LET action == Get(matched_rule, "action", <<>>)
             action_type == Get(action, "type", "set_percentage")
         IN  IF action_type = "set_percentage" THEN IntOf(Get(action, "value", 0)) ELSE 0
    ELSE 0

PlacementChanged_Always(new_pct, old_pct) == TRUE

\* Line 778 (and line 922): if new_pct != old_pct
PlacementChanged(new_pct, old_pct) == new_pct # old_pct

PlacementPlan_Truncate(camp, best, pol) ==
    LET camp_cpc == Get(camp, "cpc", 0)
        best_pct == IF best # <<>> THEN best[1].percentage ELSE 0
        \* best_factor = 1 + best_pct / 100, in ten-thousandths
        best_factor == 10000 + best_pct
        base_bid == IF best_factor > 0 THEN Round(camp_cpc * 10000, best_factor)
                    ELSE camp_cpc
        bid_reduction == Get(pol, "bid_reduction_ratio", 50)
        rounded  == Round(base_bid * bid_reduction, 100)
        new_base == IF rounded < 2 THEN 2 ELSE rounded
        \* round((old_effective / new_base - 1) * 100)
        new_best_pct == ((base_bid * best_factor) \div (100 * new_base)) - 100
    IN  [base_bid |-> base_bid, new_base |-> new_base,
         new_best_pct |-> Min(new_best_pct, pol.max_placement_pct)]

\* Lines 705-722: the figures computed for a campaign; best is <<>> or <<p>>
PlacementPlan(camp, best, pol) ==
    LET camp_cpc == Get(camp, "cpc", 0)
        best_pct == IF best # <<>> THEN best[1].percentage ELSE 0
        \* best_factor = 1 + best_pct / 100, in ten-thousandths
        best_factor == 10000 + best_pct
        base_bid == IF best_factor > 0 THEN Round(camp_cpc * 10000, best_factor)
                    ELSE camp_cpc
        bid_reduction == Get(pol, "bid_reduction_ratio", 50)
        rounded  == Round(base_bid * bid_reduction, 100)
        new_base == IF rounded < 2 THEN 2 ELSE rounded
        \* round((old_effective / new_base - 1) * 100)
        new_best_pct == Round(base_bid * best_factor, 100 * new_base) - 100
    IN  [base_bid |-> base_bid, new_base |-> new_base,
         new_best_pct |-> Min(new_best_pct, pol.max_placement_pct)]

OptimizeNewBid_NoFloor(old_bid, plan) ==
    IF plan.base_bid > 0 THEN Round(old_bid * plan.new_base, plan.base_bid)
    ELSE old_bid

\* Lines 728-733: the new bid of a target
OptimizeNewBid(old_bid, plan) ==
    LET new_bid == IF plan.base_bid > 0
                   THEN Round(old_bid * plan.new_base, plan.base_bid)
                   ELSE old_bid
    IN  IF new_bid < 2 THEN 2 ELSE new_bid

\* Lines 753-788: the placement rows of a campaign
RECURSIVE OptimizePlacementRows(_, _, _, _, _, _, _, _)
OptimizePlacementRows(cps, i, acc, cid, camp, ineff, best, plan) ==
    IF i > Len(cps) THEN acc
    ELSE LET p == cps[i]
             placement_name == p.placement
             old_pct == IntOf(p.percentage)
             new_pct == IF InIneffectiveMap(ineff, placement_name)
                        THEN IneffectivePct(IneffectiveMap(ineff, placement_name)[2])
                        ELSE IF best # <<>> /\ p.placement = best[1].placement
                        THEN plan.new_best_pct
                        ELSE old_pct
         IN  OptimizePlacementRows(cps, i + 1,
                 IF PlacementChanged(new_pct, old_pct)
                 THEN Append(acc, PlacementRow(cid, camp.name, placement_name, new_pct))
                 ELSE acc,
                 cid, camp, ineff, best, plan)

\* Lines 651-809: the body of the loop over plc_by_camp for one campaign;
\* the result is the list of suggestions it appends (none or one)
OptimizeCampaign(cid, cps, camps, tgts, pol) ==
    IF ~HasCamp(camps, cid) THEN <<>>
    ELSE LET camp  == CampById(camps, cid)
             ineff == Ineffective(cps, pol)
             eff   == Effective(cps, pol)
             best  == IF eff # <<>> THEN <<MinByAcos(eff)>> ELSE <<>>
             plan  == PlacementPlan(camp, best, pol)
             tb    == TargetsByCamp(tgts, cid)
             bid_rows == [k \in 1..Len(tb) |->
                             TargetBidRow(tb[k], cid, camp.name,
                                          OptimizeNewBid(Get(tb[k], "bid", 0), plan))]
             actions == OptimizePlacementRows(cps, 1, bid_rows, cid, camp,
                                              ineff, best, plan)
         IN  IF camp.spend < 500 THEN <<>>
             ELSE IF ineff = <<>> THEN <<>>
             ELSE IF Get(camp, "cpc", 0) <= 0 THEN <<>>
             ELSE IF actions = <<>> THEN <<>>
             ELSE << [category |-> "Placement Optimization",
                      severity |-> "medium",
                      title    |-> <<"Adjust placements for '">> \o Prefix(camp.name, 40)
                                   \o <<"' - ineffective: ">>
                                   \o [k \in 1..Len(ineff) |-> ineff[k][1].placement],
                      metrics  |-> [campaign_spend |-> camp.spend,
                                    campaign_acos |-> Get(camp, "acos", 0),
                                    ineffective_placements |-> Len(ineff),
                                    new_base_bid |-> plan.new_base],
                      actions  |-> actions] >>

RECURSIVE OptimizeFrom(_, _, _, _, _, _, _)
OptimizeFrom(order, i, out, camps, plcs, tgts, pol) ==
    IF i > Len(order) THEN out
    ELSE OptimizeFrom(order, i + 1,
             out \o OptimizeCampaign(order[i], PlcByCamp(plcs, order[i]), camps, tgts, pol),
             camps, plcs, tgts, pol)

\* _optimize_placements(campaigns, placements, targets_by_camp, t)
OptimizePlacements(camps, plcs, tgts, pol) ==
    OptimizeFrom(CampOrder(plcs), 1, <<>>, camps, plcs, tgts, pol)


---------------------------------------------------------------------------
(* F) INCREASE BIDS FOR STRONG CAMPAIGNS *)

\* Lines 843-854
IncreaseData(c) ==
    [clicks      |-> Num(100 * c.clicks),
     orders      |-> Num(100 * c.orders),
     spend       |-> Num(c.spend),
     sales       |-> Num(c.sales),
     cvr         |-> Num(IF c.clicks > 0 THEN Pct(c.orders, c.clicks) ELSE 0),
     acos        |-> Num(Pct(c.spend, c.sales)),
     ctr         |-> Num(Get(c, "ctr", 0)),
     cpc         |-> Num(Get(c, "cpc", 0)),
     impressions |-> Num(100 * Get(c, "impressions", 0)),
     roas        |-> Num(Get(c, "roas", 0))]

IncreaseRule(c, pol) == FindMatchingRule(IncreaseData(c), CustomRules(pol, "bids"))

\* Lines 866-869: the default thresholds
IncreaseDefault(c, pol) ==
    /\ ~(c.clicks < Get(pol, "clicks_bid_increase", 10)
         \/ c.orders < Get(pol, "orders_bid_increase", 3))
    /\ ~(CvrBelow(c.orders, c.clicks, pol.cvr_bid_increase)
         \/ c.spend * 100 > pol.acos_bid_increase * c.sales)

IncreaseGate_RuleAndDefault(c, pol) ==
    IncreaseRule(c, pol) # NoRule /\ IncreaseDefault(c, pol)

\* Lines 857-869
IncreaseGate(c, pol) ==
    IncreaseRule(c, pol) # NoRule \/ IncreaseDefault(c, pol)

\* Lines 858-863: the step in force, in hundredths
IncreaseStep(c, pol) ==
    IF IncreaseRule(c, pol) # NoRule
    THEN Get(Get(IncreaseRule(c, pol), "action", <<>>), "step", 15)
    ELSE pol.bid_increase_step

\* Lines 876-879: max_cpc = acos_target_increase * cvr * aov, as the
\* fraction num / den of a cent (den > 0)
MaxCpc(c, pol) ==
    IF c.clicks > 0 /\ c.orders # 0
    THEN [num |-> pol.acos_target_increase * c.sales, den |-> 100 * c.clicks]
    ELSE [num |-> 0, den |-> 1]

\* Line 881: new_cpc = round(min(cpc * (1 + step), max_cpc), 2)
NewCpc(c, pol) ==
    LET cpc  == Get(c, "cpc", 0)
        mx   == MaxCpc(c, pol)
        step == IncreaseStep(c, pol)
    IN  IF cpc * (100 + step) * mx.den <= mx.num * 100
        THEN Round(cpc * (100 + step), 100)
        ELSE Round(mx.num, mx.den)

\* The bid divided, not multiplied, by the ratio of the new CPC to the old
IncreaseNewBid_Inverse(old_bid, new_cpc, cpc) == Round(old_bid * cpc, new_cpc)

\* Lines 882-890: new_bid = round(old_bid * (new_cpc / cpc), 2)
IncreaseNewBid(old_bid, new_cpc, cpc) == Round(old_bid * new_cpc, cpc)

\* Lines 910-929: the placement row of the campaign, if any
IncreasePlacementRows(c, cps, new_cpc, pol) ==
    LET cpc   == Get(c, "cpc", 0)
        spent == SelectSeq(cps, LAMBDA p : p.spend > 0)
    IN  IF cps = <<>> \/ spent = <<>> THEN <<>>
        ELSE LET best == MinByAcos(spent)
                 \* old_factor = 1 + percentage / 100, in ten-thousandths
                 old_factor == 10000 + best.percentage
                 \* round((new_cpc / cpc * old_factor - 1) * 100)
                 rounded == Round(new_cpc * old_factor, 100 * cpc) - 100
                 new_pct == Min(rounded, pol.max_placement_pct)
             IN  IF PlacementChanged(new_pct, IntOf(best.percentage))
                 THEN << PlacementRow(c.campaign_id, c.name, best.placement, new_pct) >>
                 ELSE <<>>

IncreaseCampaign_KeepEmpty(c, plcs, tgts, pol) ==
    LET cpc == Get(c, "cpc", 0)
        mx  == MaxCpc(c, pol)
        new_cpc == NewCpc(c, pol)
        cid == c.campaign_id
        tb  == TargetsByCamp(tgts, cid)
        bid_rows == [k \in 1..Len(tb) |->
                        TargetBidRow(tb[k], cid, c.name,
                                     IncreaseNewBid(Get(tb[k], "bid", 0), new_cpc, cpc))]
        actions == bid_rows \o IncreasePlacementRows(c, PlcByCamp(plcs, cid), new_cpc, pol)
    IN  IF c.sales <= 0 THEN <<>>
        ELSE IF ~IncreaseGate(c, pol) THEN <<>>
        ELSE IF cpc <= 0 THEN <<>>
        ELSE IF mx.num <= cpc * mx.den THEN <<>>
        ELSE << [category |-> "Increase Bids",
                 severity |-> "low",
                 title    |-> <<"Boost '">> \o Prefix(c.name, 40)
                              \o <<"' - CVR ",
                                   ToString(IF c.clicks > 0
                                            THEN Round(c.orders * 100, c.clicks) ELSE 0),
                                   "%, ACOS ", ToString(Round(c.spend * 100, c.sales)),
                                   "%, ", ToString(c.orders), " orders">>,
                 \* cvr and acos are rounded to tenths of a percent
                 metrics  |-> [cvr |-> IF c.clicks > 0
                                       THEN Round(c.orders * 1000, c.clicks) ELSE 0,
                               acos |-> Round(c.spend * 1000, c.sales),
                               orders |-> c.orders, spend |-> c.spend,
                               sales |-> c.sales, current_cpc |-> cpc,
                               suggested_cpc |-> new_cpc,
                               max_cpc |-> Round(mx.num, mx.den)],
                 actions  |-> actions] >>

\* Lines 832-951: the body of the loop for one campaign; the result is the
\* list of suggestions it appends (none or one)
IncreaseCampaign(c, plcs, tgts, pol) ==
    LET cpc == Get(c, "cpc", 0)
        mx  == MaxCpc(c, pol)
        new_cpc == NewCpc(c, pol)
        cid == c.campaign_id
        tb  == TargetsByCamp(tgts, cid)
        bid_rows == [k \in 1..Len(tb) |->
                        TargetBidRow(tb[k], cid, c.name,
                                     IncreaseNewBid(Get(tb[k], "bid", 0), new_cpc, cpc))]
        actions == bid_rows \o IncreasePlacementRows(c, PlcByCamp(plcs, cid), new_cpc, pol)
    IN  IF c.sales <= 0 THEN <<>>
        ELSE IF ~IncreaseGate(c, pol) THEN <<>>
        ELSE IF cpc <= 0 THEN <<>>
        ELSE IF mx.num <= cpc * mx.den THEN <<>>
        ELSE IF actions = <<>> THEN <<>>
        ELSE << [category |-> "Increase Bids",
                 severity |-> "low",
                 title    |-> <<"Boost '">> \o Prefix(c.name, 40)
                              \o <<"' - CVR ",
                                   ToString(IF c.clicks > 0
                                            THEN Round(c.orders * 100, c.clicks) ELSE 0),
                                   "%, ACOS ", ToString(Round(c.spend * 100, c.sales)),
                                   "%, ", ToString(c.orders), " orders">>,
                 \* cvr and acos are rounded to tenths of a percent
                 metrics  |-> [cvr |-> IF c.clicks > 0
                                       THEN Round(c.orders * 1000, c.clicks) ELSE 0,
                               acos |-> Round(c.spend * 1000, c.sales),
                               orders |-> c.orders, spend |-> c.spend,
                               sales |-> c.sales, current_cpc |-> cpc,
                               suggested_cpc |-> new_cpc,
                               max_cpc |-> Round(mx.num, mx.den)],
                 actions  |-> actions] >>

RECURSIVE IncreaseFrom(_, _, _, _, _, _)
IncreaseFrom(camps, i, out, plcs, tgts, pol) ==
    IF i > Len(camps) THEN out
    ELSE IncreaseFrom(camps, i + 1, out \o IncreaseCampaign(camps[i], plcs, tgts, pol),
                      plcs, tgts, pol)

\* _increase_bids(campaigns, placements, targets_by_camp, t)
IncreaseBids(camps, plcs, tgts, pol) == IncreaseFrom(camps, 1, <<>>, plcs, tgts, pol)


---------------------------------------------------------------------------
(* The inputs of the model *)

\* A search-term row as fast_analysis builds it (no "ctr" key)
SearchTerm(term, cid, source, clicks, orders, spend, sales) ==
    [search_term |-> term, campaign_id |-> cid, campaign_name |-> <<"C", cid[1]>>,
     source_type |-> source, impressions |-> 1000, clicks |-> clicks,
     spend |-> spend, sales |-> sales, orders |-> orders,
     cpc |-> IF clicks # 0 THEN Round(spend, clicks) ELSE 0]

Great  == <<"great", " ", "keyword">>
Great2 == <<" ", "Great", "\t", " ", "Keyword">>
Bad    == <<"bad">>
Bad2   == <<"Bad", " ">>
Blank  == <<" ">>

Broad == <<"broad">>
Exact == <<"Exact", " ">>

SearchTermRows ==
    { SearchTerm(Great,  <<"100">>, Broad, 20, 5, 1000, 10000),  \* converts well
      SearchTerm(Great2, <<"100">>, Broad, 20, 5, 1000, 10000),  \* same term, other spelling
      SearchTerm(Great,  <<"100">>, Exact, 20, 5, 1000, 10000),  \* exact source
      SearchTerm(Great,  <<"200">>, Broad, 10, 5, 0, 10000),     \* converts, no spend
      SearchTerm(Great,  <<"100">>, Broad, 10, 2, 1000, 4000),   \* orders at the threshold
      SearchTerm(Great,  <<"100">>, Broad, 30, 3, 1500, 6000),   \* converts too rarely
      SearchTerm(Blank,  <<"100">>, Broad, 20, 5, 1000, 10000),  \* blank term
      SearchTerm(Bad,    <<"100">>, Broad, 15, 0, 2000, 0),      \* wastes spend
      SearchTerm(Bad2,   <<"100">>, Broad, 15, 0, 2000, 0),      \* same term, other spelling
      SearchTerm(Bad,    <<"200">>, Broad, 5, 0, 2000, 0) }      \* few clicks

Campaign(cid, name, spend, sales, orders, clicks, cpc) ==
    [campaign_id |-> cid, portfolio_id |-> IF cid = <<"100">> THEN <<"P1">> ELSE <<>>,
     name |-> name, daily_budget |-> 1000, impressions |-> 10000, clicks |-> clicks,
     spend |-> spend, sales |-> sales, orders |-> orders,
     ctr |-> IF clicks > 0 THEN Pct(clicks, 10000) ELSE 0,
     cpc |-> cpc,
     acos |-> IF sales # 0 THEN Pct(spend, sales) ELSE 0,
     roas |-> IF spend # 0 THEN Round(sales * 100, spend) ELSE 0]

C1name == <<"C1">>
C2name == <<"SP", " ", "Auto", " ", "B0TESTASIN">>

CampaignLists ==
    { <<>>,
      << Campaign(<<"100">>, C1name, 5000, 10000, 5, 200, 25) >>,    \* ordinary
      << Campaign(<<"100">>, C1name, 1000, 10000, 10, 20, 50) >>,    \* strong
      << Campaign(<<"100">>, C1name, 1000, 500, 1, 250, 4) >>,       \* cheap clicks
      << Campaign(<<"100">>, C1name, 2000, 0, 0, 100, 20) >>,        \* no orders
      << Campaign(<<"100">>, C1name, 800, 0, 0, 100, 8),             \* below the floor
         Campaign(<<"200">>, C2name, 1000, 10000, 10, 20, 50) >>,
      << Campaign(<<"100">>, C1name, 2310, 10000, 20, 66, 35) >> }   \* near its ceiling

Placement(cid, name, percentage, spend, sales) ==
    [campaign_id |-> cid, campaign_name |-> <<"C", cid[1]>>, placement |-> name,
     percentage |-> percentage, impressions |-> 5000, clicks |-> 100,
     spend |-> spend, sales |-> sales, orders |-> 5,
     cpc |-> Round(spend, 100),
     acos |-> IF sales # 0 THEN Pct(spend, sales) ELSE 0,
     cvr |-> 500]

\* percentage in hundredths of a percent
PlacementRows ==
    { Placement(<<"100">>, "Placement Top", 5000, 5000, 2500),            \* ACOS 200%, at 50%
      Placement(<<"100">>, "Placement Rest Of Search", 0, 5000, 2500),    \* ACOS 200%, at 0%
      Placement(<<"100">>, "Placement Rest Of Search", 10000, 2000, 10000), \* ACOS 20%
      Placement(<<"100">>, "Placement Product Page", 5050, 2000, 20000),  \* ACOS 10%, at 50.5%
      Placement(<<"200">>, "Placement Top", 90000, 1000, 10000) }         \* ACOS 10%, at 900%

\* Three placements of one campaign: an ineffective one, one that spent
\* without a sale (ACOS 0) and one at ACOS 20%
BaselinePlacementLists ==
    { << Placement(<<"100">>, "Placement Top", 5000, 5000, 2500),
         Placement(<<"100">>, "Placement Product Page", 2000, 1000, 0),
         Placement(<<"100">>, "Placement Rest Of Search", 10000, 2000, 10000) >> }

\* An ineffective placement at 10.5%, the percentage the rule of RuleSet
\* sets
UnchangedPlacementLists ==
    { << Placement(<<"100">>, "Placement Top", 1050, 5000, 2500) >> }

Target(entity, cid, bid, state, spend, orders) ==
    [entity |-> entity, campaign_id |-> cid, campaign_name |-> <<"C", cid[1]>>,
     ad_group_id |-> <<"200">>, ad_group_name |-> <<"AG1">>,
     keyword_id |-> IF entity = "Keyword" THEN <<"K1">> ELSE <<>>,
     product_targeting_id |-> IF entity = "Keyword" THEN <<>> ELSE <<"T1">>,
     keyword_text |-> IF entity = "Keyword" THEN <<"test", " ", "kw">> ELSE <<>>,
     match_type |-> IF entity = "Keyword" THEN "Broad" ELSE "",
     product_targeting_expression |-> IF entity = "Keyword" THEN <<>> ELSE <<"close-match">>,
     bid |-> bid, state |-> state, impressions |-> 1000, clicks |-> 30,
     spend |-> spend, sales |-> IF orders = 0 THEN 0 ELSE 2 * spend, orders |-> orders,
     cvr |-> Pct(orders, 30), acos |-> 0, cpc |-> Round(spend, 30)]

TargetRows ==
    { Target("Keyword", <<"100">>, 50, <<"enabled">>, 2000, 0),
      Target("Product Targeting", <<"100">>, 100, <<"Enabled">>, 2000, 3),
      Target("Product Targeting", <<"200">>, 1, <<"enabled">>, 1500, 0),
      Target("Keyword", <<"100">>, 50, <<"paused">>, 500, 0) }

\* The target lists of the runs that vary the placements
TargetLists ==
    { <<>>,
      << Target("Keyword", <<"100">>, 50, <<"enabled">>, 2000, 0) >>,
      << Target("Keyword", <<"100">>, 2, <<"enabled">>, 500, 0),
         Target("Product Targeting", <<"100">>, 100, <<"Enabled">>, 2000, 3) >>,
      << Target("Keyword", <<"200">>, 1, <<"enabled">>, 500, 1),
         Target("Keyword", <<"200">>, 50, <<"paused">>, 500, 0) >> }

ProductAdLists ==
    { <<>>,
      << [campaign_id |-> <<"100">>, asin |-> <<"B0TEST1234">>, sku |-> <<"SKU-TEST-01">>],
         [campaign_id |-> <<"100">>, asin |-> <<>>, sku |-> <<"SKU-TEST-02">>] >>,
      \* the second row has no campaign_id
      << [campaign_id |-> <<"100">>, asin |-> <<"B0TEST1234">>, sku |-> <<"SKU-TEST-01">>],
         [asin |-> <<"B0TEST9999">>, sku |-> <<"SKU-TEST-03">>] >> }

Portfolios == << [portfolio_id |-> <<"P1">>, name |-> <<"Main">>] >>

Cond(metric, operator, value) == [metric |-> metric, operator |-> operator, value |-> value]

Rule(enabled, conditions, action) ==
    [id |-> "custom", enabled |-> enabled, conditions |-> conditions, action |-> action]

\* One rule per category; thresholds in hundredths of the metric's unit
RuleSet(enabled) ==
    [exact      |-> << Rule(enabled, << Cond("orders", ">=", Num(200)) >>,
                            [type |-> "create_exact", bid_multiplier |-> 150]) >>,
     negatives  |-> << Rule(enabled, << Cond("clicks", ">=", Num(300)),
                                        Cond("orders", "==", Num(0)) >>,
                            [type |-> "add_negative", match_type |-> "Negative Phrase"]) >>,
     pause      |-> << Rule(enabled, << Cond("spend", ">=", Num(500)),
                                        Cond("orders", "==", Num(0)) >>,
                            [type |-> "pause"]) >>,
     placement  |-> << Rule(enabled, << Cond("acos", ">", Num(1500)) >>,
                            [type |-> "set_percentage", value |-> 1050]) >>,
     bids       |-> << Rule(enabled, << Cond("orders", ">=", Num(100)) >>,
                            [type |-> "increase", step |-> 20]) >>]

\* Overrides that only set custom rules
RuleOverrides ==
    { [x \in {} |-> 0],
      [custom_rules |-> RuleSet(TRUE)],
      [custom_rules |-> RuleSet(FALSE)] }

\* The overrides a caller passes as `thresholds`
Overrides ==
    RuleOverrides \cup {
      [bid_reduction_ratio |-> 100, max_placement_pct |-> 100,
       custom_rules |-> [placement |-> << Rule(TRUE, << Cond("spend", ">", Num(0)) >>,
                                               [type |-> "reduce_bid"]) >>]],
      \* a rule that sets 950%, over the default maximum
      [custom_rules |-> [placement |-> << Rule(TRUE, << Cond("acos", ">", Num(1500)) >>,
                                               [type |-> "set_percentage",
                                                value |-> 95000]) >>]] }


ExistingExactLists == { {}, { <<"Great", " ", " ", "keyword">> } }

ExistingNegativeSets == { {}, { <<"100", "|", "bad">> } }


---------------------------------------------------------------------------
(* build_bulk_xlsx: the values of action rows and of worksheet cells *)

\* A str value; an int or float is Num(n), None is NoneV
Text(s) == [k |-> "str", v |-> s]

\* A list of str values
ListV(items) == [k |-> "list", v |-> items]

\* Column order of the bulk file
BULK_COLS ==
    << "Product", "Entity", "Operation",
       "Campaign ID", "Ad Group ID", "Portfolio ID",
       "Ad ID", "Keyword ID", "Product Targeting ID",
       "Campaign Name", "Ad Group Name",
       "Start Date", "End Date",
       "Targeting Type", "State",
       "Daily Budget", "SKU", "ASIN",
       "Ad Group Default Bid", "Bid",
       "Keyword Text", "Match Type",
       "Bidding Strategy", "Placement", "Percentage",
       "Product Targeting Expression" >>

\* bool(val): zero, the empty string, the empty list and None are false
Truthy(val) ==
    CASE val.k = "num" -> val.v # 0
      [] val.k = "none" -> FALSE
      [] OTHER -> val.v # <<>>

\* repr of the items of a list of strings, from item i on
RECURSIVE ReprItems(_, _)
ReprItems(items, i) ==
    IF i > Len(items) THEN <<>>
    ELSE (IF i > 1 THEN <<",", " ">> ELSE <<>>)
         \o <<"'">> \o items[i] \o <<"'">> \o ReprItems(items, i + 1)

\* str(val) of a value that is not a number
PyStr(val) ==
    CASE val.k = "str" -> val.v
      [] val.k = "none" -> <<"None">>
      [] val.k = "list" -> <<"[">> \o ReprItems(val.v, 1) \o <<"]">>

BulkRow_NoDefault(action) ==
    [col \in {BULK_COLS[c] : c \in DOMAIN BULK_COLS} |->
        LET val == Get(action, col, Text(<<>>))
        IN  IF val.k = "none" THEN Text(<<>>) ELSE val]

\* Lines 988-995: the row dict of one action: every column of BULK_COLS,
\* "" for a missing or None value, and the default product line
BulkRow(action) ==
    LET row == [col \in {BULK_COLS[c] : c \in DOMAIN BULK_COLS} |->
                   LET val == Get(action, col, Text(<<>>))
                   IN  IF val.k = "none" THEN Text(<<>>) ELSE val]
    IN  IF ~Truthy(row["Product"])
        THEN [row EXCEPT !["Product"] = Text(<<"Sponsored Products">>)]
        ELSE row

\* Lines 985-996: the rows of the suggestions from the i-th on
RECURSIVE FlattenRows(_, _)
FlattenRows(sugs, i) ==
    IF i > Len(sugs) THEN <<>>
    ELSE LET actions == Get(sugs[i], "actions", <<>>)
         IN  [a \in 1..Len(actions) |-> BulkRow(actions[a])] \o FlattenRows(sugs, i + 1)

\* Lines 1017-1020: the value given to ws.cell
CellValue(val) == IF val.k = "num" THEN val ELSE Text(PyStr(val))

\* Lines 1006-1007: the header cells
HeaderRow == [c \in DOMAIN BULK_COLS |-> Text(<<BULK_COLS[c]>>)]

\* Lines 1014-1020: the cells of one data row
DataRow(row_data) ==
    [c \in DOMAIN BULK_COLS |-> CellValue(Get(row_data, BULK_COLS[c], Text(<<>>)))]

\* The six generators, by the letters of the orchestrator's comments
Generators == {"A", "B", "C", "D", "E", "F"}

\* No direct call of a generator
CallsIdle == calls = [g \in Generators |-> <<>>]

\* No call of build_bulk_xlsx
BulkIdle ==
    /\ selected_suggestions = <<>>
    /\ bulk_rows = <<>>
    /\ bulk_ws = <<>>
    /\ bulk_pc = "off"

---------------------------------------------------------------------------
(* generate_suggestions as a state machine *)

EvIdle ==
    /\ ev_data = <<>>
    /\ ev_rules = <<>>
    /\ ev_cond = <<>>
    /\ ev_cond_res = FALSE
    /\ ev_match = NoRule
    /\ ev_pc = "off"

\* The policy before line 138 has built it
NoPolicy == [x \in {} |-> 0]

\* Lines 133-146 without line 138: the state when the policy is about to
\* be merged
RunStart ==
    /\ defaults = DEFAULTS
    /\ t = NoPolicy
    /\ existing_exact = {NormKw(k) : k \in existing_exact_keywords}
    /\ suggestions = <<>>
    /\ pc = "policy"

\* Runs that vary the search terms and the dedup sets
InitTerms ==
    /\ search_terms \in SeqUpTo(SearchTermRows, MaxTerms)
    /\ \/ campaigns = <<>> /\ product_ads = <<>>
       \/ /\ campaigns = << Campaign(<<"100">>, C2name, 5000, 10000, 5, 200, 25) >>
          /\ product_ads \in ProductAdLists
    /\ targets = <<>>
    /\ placements = <<>>
    /\ portfolios = Portfolios
    /\ existing_exact_keywords \in ExistingExactLists
    /\ existing_negatives \in ExistingNegativeSets
    /\ thresholds \in RuleOverrides

\* Runs that vary the campaigns and their placements
InitPlacements ==
    /\ search_terms = <<>>
    /\ campaigns \in CampaignLists
    /\ targets \in TargetLists
    /\ placements \in SeqUpTo(PlacementRows, MaxPlacements)
                      \cup BaselinePlacementLists \cup UnchangedPlacementLists
    /\ product_ads = <<>>
    /\ portfolios = Portfolios
    /\ existing_exact_keywords = {}
    /\ existing_negatives = {}
    /\ thresholds \in Overrides

\* Runs that vary the campaigns and their targets
InitTargets ==
    /\ search_terms = <<>>
    /\ campaigns \in CampaignLists
    /\ targets \in SeqUpTo(TargetRows, MaxTargets)
    /\ placements \in {<<>>, << Placement(<<"100">>, "Placement Top", 5000, 5000, 2500) >>}
    /\ product_ads = <<>>
    /\ portfolios = Portfolios
    /\ existing_exact_keywords = {}
    /\ existing_negatives = {}
    /\ thresholds \in Overrides

Init == (InitTerms \/ InitPlacements \/ InitTargets) /\ RunStart /\ EvIdle /\ BulkIdle
        /\ CallsIdle

inputVars == <<search_terms, campaigns, targets, placements, product_ads, portfolios,
               existing_exact_keywords, thresholds, defaults, t>>

StepMergePolicy_InPlace ==
    /\ pc = "policy"
    /\ defaults' = Merge(defaults, thresholds)
    /\ t' = Merge(defaults, thresholds)
    /\ pc' = "lookups"
    /\ UNCHANGED <<search_terms, campaigns, targets, placements, product_ads, portfolios,
                   existing_exact_keywords, thresholds,
                   suggestions, existing_exact, existing_negatives, evVars, bulkVars, calls>>

\* Line 138: t = {**DEFAULTS, **(thresholds or {})}, a new dict
StepMergePolicy ==
    /\ pc = "policy"
    /\ t' = Merge(defaults, thresholds)
    /\ pc' = "lookups"
    /\ UNCHANGED <<search_terms, campaigns, targets, placements, product_ads, portfolios,
                   existing_exact_keywords, thresholds, defaults,
                   suggestions, existing_exact, existing_negatives, evVars, bulkVars, calls>>

\* Lines 149-184: the rows the lookups subscript without a default,
\* c["campaign_id"], pa["campaign_id"], p["portfolio_id"], p["name"] and
\* tgt["campaign_id"]; a row without the key raises KeyError
LookupsRaise ==
    \/ \E i \in 1..Len(campaigns) : "campaign_id" \notin DOMAIN campaigns[i]
    \/ \E i \in 1..Len(product_ads) : "campaign_id" \notin DOMAIN product_ads[i]
    \/ \E i \in 1..Len(portfolios) : ~({"portfolio_id", "name"} \subseteq DOMAIN portfolios[i])
    \/ \E i \in 1..Len(targets) : "campaign_id" \notin DOMAIN targets[i]

\* Lines 148-187: build the lookups; nothing catches the KeyError, so the
\* call ends with it and returns no list
StepBuildLookups ==
    /\ pc = "lookups"
    /\ pc' = IF LookupsRaise THEN "raised" ELSE "A"
    /\ UNCHANGED <<inputVars, suggestions, existing_exact, existing_negatives, evVars, bulkVars, calls>>

\* Lines 190-193: A) create exact campaigns from search terms
StepCreateExact ==
    /\ pc = "A"
    /\ LET res == CreateExactCampaigns(search_terms, existing_exact, campaigns,
                                       product_ads, portfolios, t)
       IN  /\ suggestions' = suggestions \o res.out
           /\ existing_exact' = res.exact
    /\ pc' = "B"
    /\ UNCHANGED <<inputVars, existing_negatives, evVars, bulkVars, calls>>

StepNegatives_Prepend ==
    /\ pc = "B"
    /\ suggestions' = NegativeSearchTerms(search_terms, existing_negatives, t) \o suggestions
    /\ pc' = "C"
    /\ UNCHANGED <<inputVars, existing_exact, existing_negatives, evVars, bulkVars, calls>>

\* Lines 196-198: B) search term negatives
StepNegatives ==
    /\ pc = "B"
    /\ suggestions' = suggestions \o NegativeSearchTerms(search_terms, existing_negatives, t)
    /\ pc' = "C"
    /\ UNCHANGED <<inputVars, existing_exact, existing_negatives, evVars, bulkVars, calls>>

\* Line 201: C) pause campaigns
StepPauseCampaigns ==
    /\ pc = "C"
    /\ suggestions' = suggestions \o PauseCampaigns(campaigns, t)
    /\ pc' = "D"
    /\ UNCHANGED <<inputVars, existing_exact, existing_negatives, evVars, bulkVars, calls>>

\* Line 204: D) pause targets
StepPauseTargets ==
    /\ pc = "D"
    /\ suggestions' = suggestions \o PauseTargets(targets, targets, t)
    /\ pc' = "E"
    /\ UNCHANGED <<inputVars, existing_exact, existing_negatives, evVars, bulkVars, calls>>

\* Line 207: E) placement optimization
StepOptimizePlacements ==
    /\ pc = "E"
    /\ suggestions' = suggestions \o OptimizePlacements(campaigns, placements, targets, t)
    /\ pc' = "F"
    /\ UNCHANGED <<inputVars, existing_exact, existing_negatives, evVars, bulkVars, calls>>

\* Line 210: F) bid increase for strong campaigns
StepIncreaseBids ==
    /\ pc = "F"
    /\ suggestions' = suggestions \o IncreaseBids(campaigns, placements, targets, t)
    /\ pc' = "ids"
    /\ UNCHANGED <<inputVars, existing_exact, existing_negatives, evVars, bulkVars, calls>>

\* Line 214: f"adv_{i}_{hash(s['title']) % 100000}"; the hash is kept as the
\* title it is taken of
SuggestionId(i, s) == [index |-> i, title |-> s.title]

\* Lines 213-217: assign the ids and return
StepAssignIds ==
    /\ pc = "ids"
    /\ suggestions' = [i \in 1..Len(suggestions) |->
                          ("id" :> SuggestionId(i - 1, suggestions[i])) @@ suggestions[i]]
    /\ pc' = "done"
    /\ UNCHANGED <<inputVars, existing_exact, existing_negatives, evVars, bulkVars, calls>>

Next ==
    \/ StepMergePolicy
    \/ StepBuildLookups
    \/ StepCreateExact
    \/ StepNegatives
    \/ StepPauseCampaigns
    \/ StepPauseTargets
    \/ StepOptimizePlacements
    \/ StepIncreaseBids
    \/ StepAssignIds

Spec == Init /\ [][Next]_vars


---------------------------------------------------------------------------
(* Direct calls of the rule evaluator *)

EvMetrics == {"clicks", "orders"}

EvOperators == {">", ">=", "<", "<=", "==", "!=", "=~"}

EvValues == {Num(0), Num(300), Num(500), StrV, NoneV}

\* Metric snapshots: numeric, missing, null and non-numeric entries
EvDataSet ==
    { [clicks |-> Num(500), orders |-> Num(0)],
      [clicks |-> Num(300)],
      [clicks |-> Num(300), orders |-> NoneV],
      [clicks |-> StrV, orders |-> Num(300)],
      [clicks |-> Num(-100), orders |-> Num(500)] }

EvConds ==
    { Cond(m, o, v) : m \in EvMetrics, o \in EvOperators, v \in EvValues }
    \cup { [metric |-> "clicks"], [metric |-> "orders", operator |-> "<="],
           [metric |-> "orders", value |-> Num(300)] }

\* The conditions rules are built of
EvRuleConds == { Cond("clicks", ">=", Num(300)), Cond("orders", "<", Num(300)) }

EvRuleSet ==
    { Rule(e, cs, [type |-> "pause"]) :
          e \in BOOLEAN, cs \in SeqUpTo(EvRuleConds, MaxConds) }
    \cup { [id |-> "custom", conditions |-> << Cond("clicks", ">=", Num(300)) >>,
            action |-> [type |-> "pause"]] }

RunIdle ==
    /\ search_terms = <<>>
    /\ campaigns = <<>>
    /\ targets = <<>>
    /\ placements = <<>>
    /\ product_ads = <<>>
    /\ portfolios = <<>>
    /\ existing_exact_keywords = {}
    /\ thresholds = NoPolicy
    /\ defaults = DEFAULTS
    /\ t = DEFAULTS
    /\ existing_exact = {}
    /\ existing_negatives = {}
    /\ suggestions = <<>>
    /\ pc = "off"

InitRules ==
    /\ RunIdle
    /\ BulkIdle
    /\ CallsIdle
    /\ ev_data \in EvDataSet
    /\ \/ /\ ev_pc = "condition"
          /\ ev_rules = <<>>
       \/ /\ ev_pc = "rules"
          /\ \E rs \in SeqUpTo(EvRuleSet, MaxRules) :
                 \* the rules of a list are told apart by their ids
                 ev_rules = [i \in 1..Len(rs) |-> [rs[i] EXCEPT !.id = i]]
    /\ ev_cond = <<>>
    /\ ev_cond_res = FALSE
    /\ ev_match = NoRule

\* A call _evaluate_condition(ev_data, c)
CallEvaluateCondition ==
    /\ ev_pc = "condition"
    /\ \E c \in EvConds :
           /\ ev_cond' = c
           /\ ev_cond_res' = EvaluateCondition(ev_data, c)
    /\ ev_pc' = "evaluated"
    /\ UNCHANGED <<ev_data, ev_rules, ev_match, runVars, bulkVars, calls>>

\* A call _find_matching_rule(ev_data, ev_rules)
CallFindMatchingRule ==
    /\ ev_pc = "rules"
    /\ ev_match' = FindMatchingRule(ev_data, ev_rules)
    /\ ev_pc' = "matched"
    /\ UNCHANGED <<ev_data, ev_rules, ev_cond, ev_cond_res, runVars, bulkVars, calls>>

NextRules == CallEvaluateCondition \/ CallFindMatchingRule

SpecRules == InitRules /\ [][NextRules]_vars

---------------------------------------------------------------------------
(* build_bulk_xlsx as a state machine *)

\* An action row of the serializer's input
BulkAction(entity, kw) ==
    kw @@ [Product |-> Text(<<"Sponsored Products">>), Entity |-> Text(<<entity>>),
           Operation |-> Text(<<"Update">>)]

\* Suggestions a caller selects: rows as the generators build them, and
\* rows with missing, None, empty, zero and list values
BulkSuggestions ==
    { [id |-> "pause",
       actions |-> << BulkAction("Campaign",
                         ("Campaign ID" :> Text(<<"123">>)) @@ [State |-> Text(<<"paused">>)]) >>],
      [id |-> "bids",
       actions |-> << BulkAction("Keyword",
                         ("Campaign ID" :> Text(<<"100">>)) @@ ("Keyword ID" :> Text(<<"K1">>))
                         @@ ("Keyword Text" :> Text(<<"test", " ", "kw">>))
                         @@ [Bid |-> Num(75)]),
                      ("Campaign ID" :> Text(<<"100">>))
                         @@ [Entity |-> Text(<<"Bidding Adjustment">>),
                             Operation |-> Text(<<"Update">>),
                             Placement |-> Text(<<"Placement", " ", "Top">>),
                             Percentage |-> Num(0)] >>],
      [id |-> "no-actions"],
      [id |-> "empty", actions |-> <<>>],
      [id |-> "odd",
       actions |-> << ("Keyword ID" :> NoneV) @@ ("Note" :> Text(<<"kept", " ", "out">>))
                         @@ [Product |-> Text(<<>>), Entity |-> Text(<<"Keyword">>),
                             SKU |-> ListV(<< <<"SKU-1">>, <<"SKU-2">> >>),
                             Bid |-> Num(-5)] >>],
      [id |-> "brands",
       actions |-> << [Product |-> Text(<<"Sponsored Brands">>), Entity |-> Text(<<"Campaign">>)],
                      [Product |-> NoneV, Entity |-> Text(<<"Campaign">>)] >>],
      [id |-> "zero",
       actions |-> << [Product |-> Num(0), Entity |-> Text(<<"Campaign">>)] >>] }

InitBulk ==
    /\ RunIdle
    /\ EvIdle
    /\ CallsIdle
    /\ selected_suggestions \in SeqUpTo(BulkSuggestions, MaxSelected)
    /\ bulk_rows = <<>>
    /\ bulk_ws = <<>>
    /\ bulk_pc = "flatten"

\* Lines 985-996: flatten the action rows
BulkFlatten ==
    /\ bulk_pc = "flatten"
    /\ bulk_rows' = FlattenRows(selected_suggestions, 1)
    /\ bulk_pc' = "header"
    /\ UNCHANGED <<selected_suggestions, bulk_ws, runVars, evVars, calls>>

\* Lines 998-1010: the new worksheet and its header row
BulkHeader ==
    /\ bulk_pc = "header"
    /\ bulk_ws' = << HeaderRow >>
    /\ bulk_pc' = "data"
    /\ UNCHANGED <<selected_suggestions, bulk_rows, runVars, evVars, calls>>

\* Lines 1013-1020: the data rows, from worksheet row 2 on
BulkData ==
    /\ bulk_pc = "data"
    /\ bulk_ws' = bulk_ws \o [r \in 1..Len(bulk_rows) |-> DataRow(bulk_rows[r])]
    /\ bulk_pc' = "save"
    /\ UNCHANGED <<selected_suggestions, bulk_rows, runVars, evVars, calls>>

\* Lines 1022-1035: set the column widths, save and return the workbook
BulkSave ==
    /\ bulk_pc = "save"
    /\ bulk_pc' = "returned"
    /\ UNCHANGED <<selected_suggestions, bulk_rows, bulk_ws, runVars, evVars, calls>>

NextBulk == BulkFlatten \/ BulkHeader \/ BulkData \/ BulkSave

SpecBulk == InitBulk /\ [][NextBulk]_vars

---------------------------------------------------------------------------
(* Direct calls of the generators on one snapshot, one policy and one pair
   of dedup sets, in any order *)

CallTermRows ==
    { SearchTerm(Great,  <<"100">>, Broad, 20, 5, 1000, 10000),
      SearchTerm(Great2, <<"100">>, Broad, 20, 5, 1000, 10000),
      SearchTerm(Bad,    <<"100">>, Broad, 15, 0, 2000, 0) }

CallCampaignLists ==
    { << Campaign(<<"100">>, C1name, 5000, 10000, 5, 200, 25) >>,
      << Campaign(<<"100">>, C1name, 2000, 0, 0, 100, 20),
         Campaign(<<"200">>, C2name, 1000, 10000, 10, 20, 50) >> }

CallTargetLists ==
    { <<>>,
      << Target("Keyword", <<"100">>, 50, <<"enabled">>, 2000, 0),
         Target("Product Targeting", <<"200">>, 100, <<"Enabled">>, 2000, 3) >> }

InitCalls ==
    /\ search_terms \in SeqUpTo(CallTermRows, MaxTerms)
    /\ campaigns \in CallCampaignLists
    /\ targets \in CallTargetLists
    /\ placements = << Placement(<<"100">>, "Placement Top", 5000, 5000, 2500) >>
    /\ product_ads = <<>>
    /\ portfolios = Portfolios
    /\ existing_exact_keywords \in ExistingExactLists
    /\ existing_negatives = {}
    /\ thresholds = NoPolicy
    /\ defaults = DEFAULTS
    /\ t \in {Merge(DEFAULTS, o) : o \in RuleOverrides}
    /\ existing_exact = {NormKw(k) : k \in existing_exact_keywords}
    /\ suggestions = <<>>
    /\ pc = "calls"
    /\ CallsIdle
    /\ EvIdle
    /\ BulkIdle

callFrame == <<search_terms, campaigns, targets, placements, product_ads, portfolios,
               existing_exact_keywords, thresholds, defaults, t, existing_negatives,
               suggestions, pc, evVars, bulkVars>>

\* A call _create_exact_campaigns(search_terms, existing_exact, ...); the
\* caller may call again with the set the earlier calls have written to
CallCreateExact ==
    /\ pc = "calls"
    /\ Len(calls.A) < MaxCalls
    /\ LET res == CreateExactCampaigns(search_terms, existing_exact, campaigns,
                                       product_ads, portfolios, t)
       IN  /\ calls' = [calls EXCEPT !.A = Append(@, res.out)]
           /\ existing_exact' = res.exact
    /\ UNCHANGED callFrame

\* A call _negative_search_terms(search_terms, existing_negatives, t)
CallNegatives ==
    /\ pc = "calls"
    /\ calls.B = <<>>
    /\ calls' = [calls EXCEPT !.B = << NegativeSearchTerms(search_terms, existing_negatives, t) >>]
    /\ UNCHANGED <<callFrame, existing_exact>>

\* A call _pause_campaigns(campaigns, t)
CallPauseCampaigns ==
    /\ pc = "calls"
    /\ calls.C = <<>>
    /\ calls' = [calls EXCEPT !.C = << PauseCampaigns(campaigns, t) >>]
    /\ UNCHANGED <<callFrame, existing_exact>>

CallPauseTargets_SkipPaused ==
    /\ pc = "calls"
    /\ calls.D = <<>>
    /\ LET paused == IF calls.C = <<>> THEN {}
                     ELSE {calls.C[1][i].actions[1]["Campaign ID"] : i \in 1..Len(calls.C[1])}
           live == SelectSeq(targets, LAMBDA g : g.campaign_id \notin paused)
       IN  calls' = [calls EXCEPT !.D = << PauseTargets(live, targets, t) >>]
    /\ UNCHANGED <<callFrame, existing_exact>>

\* A call _pause_targets(targets, targets_per_campaign, t)
CallPauseTargets ==
    /\ pc = "calls"
    /\ calls.D = <<>>
    /\ calls' = [calls EXCEPT !.D = << PauseTargets(targets, targets, t) >>]
    /\ UNCHANGED <<callFrame, existing_exact>>

\* A call _optimize_placements(campaigns, placements, targets_by_camp, t)
CallOptimizePlacements ==
    /\ pc = "calls"
    /\ calls.E = <<>>
    /\ calls' = [calls EXCEPT !.E = << OptimizePlacements(campaigns, placements, targets, t) >>]
    /\ UNCHANGED <<callFrame, existing_exact>>

\* A call _increase_bids(campaigns, placements, targets_by_camp, t)
CallIncreaseBids ==
    /\ pc = "calls"
    /\ calls.F = <<>>
    /\ calls' = [calls EXCEPT !.F = << IncreaseBids(campaigns, placements, targets, t) >>]
    /\ UNCHANGED <<callFrame, existing_exact>>

NextCalls ==
    \/ CallCreateExact
    \/ CallNegatives
    \/ CallPauseCampaigns
    \/ CallPauseTargets
    \/ CallOptimizePlacements
    \/ CallIncreaseBids

SpecCalls == InitCalls /\ [][NextCalls]_vars

---------------------------------------------------------------------------
(* Properties of the rule evaluator *)

SixOperators == {">", ">=", "<", "<=", "==", "!="}

\* The usual meaning of the comparison operators, by the sign of a - b
Compares(op, a, b) ==
    LET d == a - b
    IN  \/ op \in {">", ">=", "!="} /\ d > 0
        \/ op \in {"<", "<=", "!="} /\ d < 0
        \/ op \in {">=", "<=", "=="} /\ d = 0

FullCondition(c) == {"metric", "operator", "value"} \subseteq DOMAIN c

MetricMissing(data, c) == c.metric \notin DOMAIN data \/ data[c.metric] = NoneV

\* A rule that qualifies: enabled, at least one condition, all of them true
Qualifies(data, rule) ==
    /\ ("enabled" \in DOMAIN rule => rule.enabled)
    /\ rule.conditions # <<>>
    /\ \A k \in 1..Len(rule.conditions) : EvaluateCondition(data, rule.conditions[k])

\* C4: _find_matching_rule returns the first rule in list order that is
\* enabled, has at least one condition and has all its conditions true, and
\* returns None when no rule qualifies; it never returns a disabled rule or
\* a rule without conditions.
C4_FirstMatch ==
    ev_pc = "matched" =>
        LET Q == {i \in 1..Len(ev_rules) : Qualifies(ev_data, ev_rules[i])}
        IN  IF Q = {} THEN ev_match = NoRule
            ELSE \E i \in Q : /\ \A j \in Q : i <= j
                             /\ ev_match = ev_rules[i]

\* A later rule qualifies but an earlier disabled or empty rule does not win
C4_Witness ==
    /\ ev_pc = "matched"
    /\ Len(ev_rules) = 2
    /\ ~Qualifies(ev_data, ev_rules[1])
    /\ ev_rules[1].conditions # <<>>
    /\ \A k \in 1..Len(ev_rules[1].conditions) :
           EvaluateCondition(ev_data, ev_rules[1].conditions[k])
    /\ ev_match = ev_rules[2]

\* C5: on a metric that is present, _evaluate_condition agrees with the
\* usual numeric comparison for the six operators and is false when the
\* actual value or the threshold is not numeric or the operator is unknown.
C5_OperatorTable ==
    (ev_pc = "evaluated" /\ FullCondition(ev_cond) /\ ~MetricMissing(ev_data, ev_cond)) =>
        ev_cond_res = ( /\ ev_data[ev_cond.metric].k = "num"
                        /\ ev_cond.value.k = "num"
                        /\ ev_cond.operator \in SixOperators
                        /\ Compares(ev_cond.operator, ev_data[ev_cond.metric].v,
                                    ev_cond.value.v) )

\* The boundary case of >= : equal operands
C5_Witness ==
    /\ ev_pc = "evaluated"
    /\ FullCondition(ev_cond)
    /\ ~MetricMissing(ev_data, ev_cond)
    /\ ev_cond.operator = ">="
    /\ ev_cond.value = ev_data[ev_cond.metric]
    /\ ev_cond.value.k = "num"
    /\ ev_cond_res

\* C6 as claimed: a condition on a metric that is absent or null is false
\* for every operator and threshold.
C6_MissingIsFalse ==
    (ev_pc = "evaluated" /\ "metric" \in DOMAIN ev_cond /\ MetricMissing(ev_data, ev_cond)) =>
        ~ev_cond_res

\* C6 as amended: a condition on a metric that is absent or null is
\* evaluated with 0 as the metric's value: it is true exactly when the
\* threshold is numeric, the operator is one of the six and 0 compares so.
C6_MissingIsZero ==
    (ev_pc = "evaluated" /\ FullCondition(ev_cond) /\ MetricMissing(ev_data, ev_cond)) =>
        ev_cond_res = ( /\ ev_cond.value.k = "num"
                        /\ ev_cond.operator \in SixOperators
                        /\ Compares(ev_cond.operator, 0, ev_cond.value.v) )

\* A condition on an absent metric that evaluates true
C6_Witness ==
    /\ ev_pc = "evaluated"
    /\ FullCondition(ev_cond)
    /\ ev_cond.metric \notin DOMAIN ev_data
    /\ ev_cond_res


---------------------------------------------------------------------------
(* Properties of the generators *)

\* The positions of the suggestions of a category
OfCategory(cat) == {i \in 1..Len(suggestions) : suggestions[i].category = cat}

\* The words of a text, lower-cased: two texts have the same normalised
\* form exactly when they have the same words
Words(text) == SelectSeq(Lower(text), LAMBDA c : ~IsSpace(c))

\* The words joined by single spaces
RECURSIVE Join(_)
Join(ws) ==
    IF ws = <<>> THEN <<>>
    ELSE IF Len(ws) = 1 THEN ws
    ELSE <<Head(ws), " ">> \o Join(Tail(ws))

\* The search term a suggestion of generator A or B was made for
TermOf(i) == suggestions[i].metrics.search_term

\* The source campaign of a suggestion of generator A or B
SourceCampaignOf(i) ==
    LET rows == suggestions[i].actions
    IN  rows[Len(rows)]["Campaign ID"]

\* C1: one run emits at most one Create Exact Campaign suggestion per
\* normalised term, and none for a term whose normalised form is in the
\* existing-exact set the caller supplied, whatever the spelling of the
\* row's term.
C1_ExactDedup ==
    LET ex == OfCategory("Create Exact Campaign")
    IN  /\ \A i, j \in ex : Words(TermOf(i)) = Words(TermOf(j)) => i = j
        /\ \A i \in ex :
               /\ Join(Words(TermOf(i))) \notin existing_exact_keywords
               /\ \A k \in existing_exact_keywords : Words(k) # Words(TermOf(i))

\* Two rows that pass the gate spell the same term differently: one
\* suggestion; and a passing row whose term is known gets none
C1_Witness ==
    /\ pc = "done"
    /\ \/ /\ existing_exact_keywords = {}
          /\ \E a, b \in 1..Len(search_terms) :
                 /\ a < b
                 /\ search_terms[a].search_term # search_terms[b].search_term
                 /\ Words(search_terms[a].search_term) = Words(search_terms[b].search_term)
                 /\ \A x \in {a, b} : /\ IsNonExactSource(search_terms[x].source_type)
                                      /\ search_terms[x].orders = 5
          /\ Cardinality(OfCategory("Create Exact Campaign")) = 1
       \/ /\ existing_exact_keywords # {}
          /\ \E a \in 1..Len(search_terms) :
                 /\ IsNonExactSource(search_terms[a].source_type)
                 /\ search_terms[a].orders = 5
                 /\ search_terms[a].search_term = Great2
          /\ OfCategory("Create Exact Campaign") = {}

\* C2: one run emits at most one Search Term Negatives suggestion per
\* (campaign, normalised term) pair, and none for a pair whose key is in the
\* existing-negative set the caller supplied.
C2_NegativeDedup ==
    LET ng == OfCategory("Search Term Negatives")
    IN  /\ \A i, j \in ng :
               ( /\ SourceCampaignOf(i) = SourceCampaignOf(j)
                 /\ Words(TermOf(i)) = Words(TermOf(j)) ) => i = j
        /\ \A i \in ng :
               SourceCampaignOf(i) \o <<"|">> \o Join(Words(TermOf(i)))
                   \notin existing_negatives

\* Two wasting rows of one campaign spell the same term differently: one
\* suggestion; with the pair known: none
C2_Witness ==
    /\ pc = "done"
    /\ Len(search_terms) = 2
    /\ search_terms[1].search_term = Bad
    /\ search_terms[2].search_term = Bad2
    /\ search_terms[1].campaign_id = search_terms[2].campaign_id
    /\ Cardinality(OfCategory("Search Term Negatives")) =
           IF existing_negatives = {} THEN 1 ELSE 0

\* Some rule of the category qualifies on the data of a row
RuleHit(data, cat) ==
    \E k \in 1..Len(CustomRules(t, cat)) : Qualifies(data, CustomRules(t, cat)[k])

\* The action of the first rule of the category that qualifies
HitAction(data, cat) ==
    LET rules == CustomRules(t, cat)
        k == CHOOSE k \in 1..Len(rules) :
                 /\ Qualifies(data, rules[k])
                 /\ \A j \in 1..(k - 1) : ~Qualifies(data, rules[j])
    IN  Get(rules[k], "action", <<>>)

\* The suggestions of a category, in output order
InCategory(cat) == SelectSeq(suggestions, LAMBDA s : s.category = cat)

\* A search-term row generator A acts on, dedup aside: a rule hit, or
\* else the default thresholds on orders and conversion rate
ExactActs(r) ==
    /\ IsNonExactSource(r.source_type)
    /\ Words(r.search_term) # <<>>
    /\ \/ RuleHit(SearchTermData(r), "exact")
       \/ /\ r.orders > t.orders_create_exact
          /\ ~CvrBelow(r.orders, r.clicks, t.cvr_create_exact)

\* The rows of generator A that are first for their term and not known
ExactFirsts ==
    {a \in 1..Len(search_terms) :
        /\ ExactActs(search_terms[a])
        /\ \A k \in existing_exact_keywords : Words(k) # Words(search_terms[a].search_term)
        /\ \A b \in 1..(a - 1) :
               ~( /\ ExactActs(search_terms[b])
                  /\ Words(search_terms[b].search_term) = Words(search_terms[a].search_term) )}

\* Generator A obeys rule precedence: the suggestions are those of the rows
\* of ExactFirsts, each with the bid multiplier of the rule that hit or else
\* the policy's
C3_Exact ==
    /\ Len(InCategory("Create Exact Campaign")) = Cardinality(ExactFirsts)
    /\ \A a \in ExactFirsts :
           LET r    == search_terms[a]
               data == SearchTermData(r)
               mult == IF RuleHit(data, "exact")
                       THEN Get(HitAction(data, "exact"), "bid_multiplier", t.bid_multiplier)
                       ELSE t.bid_multiplier
               cpc  == IF r.clicks # 0 THEN Round(r.spend, r.clicks) ELSE 50
           IN  \E i \in OfCategory("Create Exact Campaign") :
                   /\ TermOf(i) = r.search_term
                   /\ SourceCampaignOf(i) = r.campaign_id
                   /\ suggestions[i].metrics.suggested_bid = Round(cpc * mult, 100)

\* A search-term row generator B acts on, dedup aside
NegActs(r) ==
    /\ IsNonExactSource(r.source_type)
    /\ \/ RuleHit(SearchTermData(r), "negatives")
       \/ r.clicks >= t.clicks_negative /\ r.orders = 0

\* The rows of generator B that are first for their pair and not known
NegFirsts ==
    {a \in 1..Len(search_terms) :
        /\ NegActs(search_terms[a])
        /\ search_terms[a].campaign_id \o <<"|">> \o Join(Words(search_terms[a].search_term))
               \notin existing_negatives
        /\ \A b \in 1..(a - 1) :
               ~( /\ NegActs(search_terms[b])
                  /\ search_terms[b].campaign_id = search_terms[a].campaign_id
                  /\ Words(search_terms[b].search_term) = Words(search_terms[a].search_term) )}

\* Generator B obeys rule precedence: the suggestions are those of the rows
\* of NegFirsts, each with the match type of the rule that hit or else the
\* policy's
C3_Negatives ==
    /\ Len(InCategory("Search Term Negatives")) = Cardinality(NegFirsts)
    /\ \A a \in NegFirsts :
           LET r    == search_terms[a]
               data == SearchTermData(r)
               mt   == IF RuleHit(data, "negatives")
                       THEN Get(HitAction(data, "negatives"), "match_type", "Negative Exact")
                       ELSE t.negative_match_type
           IN  \E i \in OfCategory("Search Term Negatives") :
                   /\ TermOf(i) = r.search_term
                   /\ SourceCampaignOf(i) = r.campaign_id
                   /\ suggestions[i].actions[1]["Match Type"] = mt

\* The campaigns generator C acts on: a rule hit, or else the default
\* threshold on spend without orders
PauseCampaignActs(c) ==
    \/ RuleHit(CampaignPauseData(c), "pause")
    \/ c.spend >= t.spend_campaign_pause /\ c.orders <= 0

\* Generator C obeys rule precedence: one suggestion per campaign acted on,
\* in input order
C3_PauseCampaigns ==
    LET acted == SelectSeq(campaigns, PauseCampaignActs)
        out   == InCategory("Pause Campaigns")
    IN  /\ Len(out) = Len(acted)
        /\ \A k \in 1..Len(acted) :
               out[k].actions[1]["Campaign ID"] = acted[k].campaign_id

\* The targets generator D acts on
PauseTargetActs(g) ==
    \/ RuleHit(TargetPauseData(g), "pause")
    \/ g.spend >= t.spend_target_pause /\ g.orders <= 0

\* Generator D obeys rule precedence: one suggestion per target acted on, in
\* input order
C3_PauseTargets ==
    LET acted == SelectSeq(targets, PauseTargetActs)
        out   == InCategory("Pause Targets")
    IN  /\ Len(out) = Len(acted)
        /\ \A k \in 1..Len(acted) :
               /\ out[k].actions[1]["Campaign ID"] = acted[k].campaign_id
               /\ out[k].metrics.spend = acted[k].spend
               /\ out[k].metrics.target = TargetLabel(acted[k])

\* A placement generator E classifies as ineffective: it has spend and a
\* positive percentage, and a rule hit or else its ACOS is over the threshold
PlacementActs(p) ==
    /\ p.spend > 0
    /\ IntOf(p.percentage) > 0
    /\ \/ RuleHit(PlacementData(p), "placement")
       \/ p.acos > 100 * t.acos_ineffective

\* The percentage generator E sets for an ineffective placement: the value
\* of a set_percentage rule that hit, as a whole number, else 0
PlacementActsPct(p) ==
    LET data == PlacementData(p)
    IN  IF RuleHit(data, "placement")
             /\ Get(HitAction(data, "placement"), "type", "set_percentage") = "set_percentage"
        THEN Get(HitAction(data, "placement"), "value", 0) \div 100
        ELSE 0

\* The campaigns generator E looks at
OptimizeEligible(c) == c.spend >= 500 /\ c.cpc > 0

\* Generator E obeys rule precedence: a campaign it looks at gets a
\* suggestion only with an ineffective placement, the suggestion counts
\* them, and each is set to the percentage of its rule or to 0
C3_Placements ==
    LET out == InCategory("Placement Optimization")
    IN  /\ \A k \in 1..Len(out) :
               LET cid == out[k].actions[1]["Campaign ID"]
                   cps == PlcByCamp(placements, cid)
                   hit == {i \in 1..Len(cps) : PlacementActs(cps[i])}
               IN  /\ out[k].metrics.ineffective_placements = Cardinality(hit)
                   /\ hit # {}
        /\ \A x \in 1..Len(campaigns), i \in 1..Len(placements) :
               LET c == campaigns[x]
                   p == placements[i]
               IN  ( /\ p.campaign_id = c.campaign_id
                     /\ OptimizeEligible(c)
                     /\ PlacementActs(p)
                     /\ \A j \in (i + 1)..Len(placements) :
                            ~( /\ placements[j].campaign_id = p.campaign_id
                               /\ placements[j].placement = p.placement
                               /\ PlacementActs(placements[j]) )
                     /\ PlacementActsPct(p) # IntOf(p.percentage) )
                   => \E k \in 1..Len(out) : \E n \in 1..Len(out[k].actions) :
                          LET row == out[k].actions[n]
                          IN  /\ row.Entity = "Bidding Adjustment"
                              /\ row["Campaign ID"] = c.campaign_id
                              /\ row.Placement = p.placement
                              /\ row.Percentage = PlacementActsPct(p)

\* A campaign generator F acts on, its ceiling aside: it has sales, and a
\* rule hit or else the default thresholds hold
IncreaseActs(c) ==
    /\ c.sales > 0
    /\ \/ RuleHit(IncreaseData(c), "bids")
       \/ /\ c.clicks >= t.clicks_bid_increase
          /\ c.orders >= t.orders_bid_increase
          /\ ~CvrBelow(c.orders, c.clicks, t.cvr_bid_increase)
          /\ c.spend * 100 <= t.acos_bid_increase * c.sales

\* The step generator F uses, in hundredths
IncreaseActsStep(c) ==
    IF RuleHit(IncreaseData(c), "bids")
    THEN Get(HitAction(IncreaseData(c), "bids"), "step", 15)
    ELSE t.bid_increase_step

\* max_cpc > cpc > 0, with max_cpc = acos_target_increase * sales / clicks
UnderCeiling(c) ==
    /\ c.cpc > 0
    /\ c.clicks > 0
    /\ c.orders > 0
    /\ t.acos_target_increase * c.sales > c.cpc * 100 * c.clicks

\* Generator F obeys rule precedence: a suggestion is for a campaign it acts
\* on, and a campaign it acts on that is under its ceiling and has enabled
\* targets gets one, with the step of its rule or else the policy's
C3_IncreaseBids ==
    LET out == InCategory("Increase Bids")
    IN  /\ \A k \in 1..Len(out) :
               \E x \in 1..Len(campaigns) :
                   /\ campaigns[x].campaign_id = out[k].actions[1]["Campaign ID"]
                   /\ IncreaseActs(campaigns[x])
                   /\ UnderCeiling(campaigns[x])
        /\ \A x \in 1..Len(campaigns) :
               LET c == campaigns[x]
                   stepped == c.cpc * (100 + IncreaseActsStep(c))
                   capped  == IF stepped * c.clicks <= t.acos_target_increase * c.sales
                              THEN Round(stepped, 100)
                              ELSE Round(t.acos_target_increase * c.sales, 100 * c.clicks)
               IN  ( /\ IncreaseActs(c)
                     /\ UnderCeiling(c)
                     /\ TargetsByCamp(targets, c.campaign_id) # <<>> )
                   => \E k \in 1..Len(out) :
                          /\ out[k].actions[1]["Campaign ID"] = c.campaign_id
                          /\ out[k].metrics.suggested_cpc = capped

\* C3: in every generator a row on which a custom rule of the generator's
\* category matches is acted on with the rule's action parameters whatever
\* the default thresholds say, and a row on which none matches (no rule, a
\* disabled rule, a rule whose conditions fail) is acted on exactly when it
\* passes the default thresholds.  Rows are those that reach the gate, and
\* dedup, the ceiling and the changed-value checks apply after it.
C3_RulePrecedence ==
    pc = "done" =>
        /\ C3_Exact
        /\ C3_Negatives
        /\ C3_PauseCampaigns
        /\ C3_PauseTargets
        /\ C3_Placements
        /\ C3_IncreaseBids

\* A row at the default order threshold is acted on because a rule hit, and
\* its bid carries the rule's multiplier and not the policy's
C3_Witness ==
    /\ pc = "done"
    /\ \E a \in ExactFirsts :
           LET r    == search_terms[a]
               data == SearchTermData(r)
               cpc  == Round(r.spend, r.clicks)
           IN  /\ r.orders <= t.orders_create_exact
               /\ r.clicks > 0
               /\ RuleHit(data, "exact")
               /\ Round(cpc * HitAction(data, "exact").bid_multiplier, 100)
                      # Round(cpc * t.bid_multiplier, 100)
               /\ \E i \in OfCategory("Create Exact Campaign") :
                      /\ TermOf(i) = r.search_term
                      /\ suggestions[i].metrics.suggested_bid
                             = Round(cpc * HitAction(data, "exact").bid_multiplier, 100)

\* The action rows of the suggestions, as pairs <<suggestion, row>>
ActionRows ==
    {<<i, n>> \in (1..Len(suggestions)) \X (1..(5 + MaxTargets + MaxPlacements)) :
        n <= Len(suggestions[i].actions)}

RowAt(x) == suggestions[x[1]].actions[x[2]]

\* The identifiers of a row equal its names
IdIsName(row) ==
    /\ row["Campaign ID"] = row["Campaign Name"]
    /\ "Ad Group ID" \in DOMAIN row => row["Ad Group ID"] = row["Ad Group Name"]

\* C7 as claimed: on every Create row of every generator Campaign ID equals
\* Campaign Name and, where the row carries an ad group, Ad Group ID equals
\* Ad Group Name.
C7_CreateIdIsName ==
    \A x \in ActionRows : RowAt(x).Operation = "Create" => IdIsName(RowAt(x))

\* C7 as amended: the Create rows of the new campaign, ad group, product ad
\* and keyword carry identifiers equal to their names; a Create row of a
\* Campaign Negative Keyword carries the identifier and the name of the
\* source campaign of the search-term row it was made for.
C7_NewEntityIdIsName ==
    \A x \in ActionRows :
        LET row == RowAt(x)
        IN  row.Operation = "Create" =>
                IF row.Entity = "Campaign Negative Keyword"
                THEN \E a \in 1..Len(search_terms) :
                         /\ row["Campaign ID"] = search_terms[a].campaign_id
                         /\ row["Campaign Name"] = search_terms[a].campaign_name
                         /\ row["Keyword Text"] = search_terms[a].search_term
                ELSE /\ row.Entity \in {"Campaign", "Ad Group", "Product Ad", "Keyword"}
                     /\ IdIsName(row)

\* A create-exact suggestion with its five Create rows, the last one on the
\* source campaign whose identifier is not its name
C7_Witness ==
    /\ pc = "done"
    /\ \E i \in OfCategory("Create Exact Campaign") :
           LET rows == suggestions[i].actions
           IN  /\ Len(rows) = 5
               /\ \A n \in 1..5 : rows[n].Operation = "Create"
               /\ \A n \in 1..4 : IdIsName(rows[n])
               /\ rows[5].Entity = "Campaign Negative Keyword"
               /\ rows[5]["Campaign ID"] # rows[5]["Campaign Name"]
               /\ rows[5]["Campaign ID"] # rows[1]["Campaign ID"]

\* The rows that update a placement percentage
PlacementUpdates == {x \in ActionRows : RowAt(x).Entity = "Bidding Adjustment"}

\* The placement rows of the input a row may stand for
PlacementsOf(row) ==
    {i \in 1..Len(placements) :
        /\ placements[i].campaign_id = row["Campaign ID"]
        /\ placements[i].placement = row.Placement}

\* C8: every Bidding Adjustment row of optimize-placement and increase-bids
\* is an Update of a placement of the input and carries a Percentage other
\* than the current percentage of that placement; so a placement that is
\* already at the percentage computed for it, as an ineffective one at 0%,
\* gets no row.
C8_PlacementRowChanges ==
    \A x \in PlacementUpdates :
        LET row == RowAt(x)
        IN  /\ row.Operation = "Update"
            /\ suggestions[x[1]].category \in {"Placement Optimization", "Increase Bids"}
            /\ \E i \in PlacementsOf(row) : 100 * row.Percentage # placements[i].percentage

\* A campaign with two placements over the ACOS threshold, one at 50% and
\* one at 0%: the first is set to 0%, the second gets no row
C8_Witness ==
    /\ pc = "done"
    /\ Len(placements) = 2
    /\ placements[1].campaign_id = placements[2].campaign_id
    /\ placements[1].placement # placements[2].placement
    /\ \A i \in {1, 2} : /\ placements[i].spend > 0
                         /\ placements[i].acos > 100 * t.acos_ineffective
    /\ placements[1].percentage = 5000
    /\ placements[2].percentage = 0
    /\ \E x \in PlacementUpdates :
           /\ suggestions[x[1]].category = "Placement Optimization"
           /\ PlacementsOf(RowAt(x)) = {1}
           /\ RowAt(x).Percentage = 0
    /\ \A x \in PlacementUpdates : 2 \notin PlacementsOf(RowAt(x))

\* The suggestions of generators E and F
BidSuggestions == OfCategory("Placement Optimization") \cup OfCategory("Increase Bids")

\* C9 as claimed: every Keyword or Product Targeting Update row of
\* optimize-placement and increase-bids carries a Bid other than the current
\* bid of its target.  The rows come first in the actions, one per enabled
\* target of the campaign, in input order.
C9_BidRowChanges ==
    \A i \in BidSuggestions :
        LET rows == suggestions[i].actions
            tb   == TargetsByCamp(targets, rows[1]["Campaign ID"])
        IN  \A k \in 1..Len(tb) :
                /\ rows[k].Entity = tb[k].entity
                /\ rows[k].Operation = "Update"
                /\ rows[k].Bid # tb[k].bid

\* C10 as claimed: every Bid and every Ad Group Default Bid written to an
\* action row by any generator is at least 0.02.
C10_BidFloor ==
    \A x \in ActionRows :
        LET row == RowAt(x)
        IN  /\ "Bid" \in DOMAIN row => row.Bid >= 2
            /\ "Ad Group Default Bid" \in DOMAIN row => row["Ad Group Default Bid"] >= 2

\* C11 as claimed: every Percentage written to a Bidding Adjustment row by
\* optimize-placement or increase-bids is at most max_placement_pct, also
\* when it comes from the set_percentage action of a matched rule.
C11_PercentageCapped ==
    \A x \in PlacementUpdates : RowAt(x).Percentage <= t.max_placement_pct

\* The campaign an Increase Bids suggestion was made for
IncreasedCampaign(i) ==
    LET cid == suggestions[i].actions[1]["Campaign ID"]
    IN  CHOOSE c \in {campaigns[x] : x \in 1..Len(campaigns)} : c.campaign_id = cid

\* C12 as claimed: the suggested new CPC of every Increase Bids suggestion,
\* as rounded, is at most acos_target_increase * (orders / clicks) *
\* (sales / orders) of its campaign.
C12_CpcUnderCeiling ==
    \A i \in OfCategory("Increase Bids") :
        LET c == IncreasedCampaign(i)
        IN  suggestions[i].metrics.suggested_cpc * 100 * c.clicks
                <= t.acos_target_increase * c.sales

\* A target that is active: its state is enabled
ActiveTarget(g) == Lower(g.state) = <<"enabled">>

\* The number of active targets of a campaign
ActiveTargets(cid) ==
    Cardinality({i \in 1..Len(targets) :
                    targets[i].campaign_id = cid /\ ActiveTarget(targets[i])})

\* C13 as claimed: a target that qualifies for pausing gets one row: on the
\* owning campaign (Entity Campaign, Update, State paused) when the campaign
\* has at most one active target, else on the target itself (its own entity,
\* State paused).
C13_PauseTargetEntity ==
    pc = "done" =>
        LET acted == SelectSeq(targets, PauseTargetActs)
            out   == InCategory("Pause Targets")
        IN  /\ Len(out) = Len(acted)
            /\ \A k \in 1..Len(acted) :
                   LET g   == acted[k]
                       row == out[k].actions[1]
                   IN  /\ Len(out[k].actions) = 1
                       /\ row.Operation = "Update"
                       /\ row.State = "paused"
                       /\ row["Campaign ID"] = g.campaign_id
                       /\ row.Entity = IF ActiveTargets(g.campaign_id) <= 1
                                       THEN "Campaign" ELSE g.entity

\* C14: every Create Exact Campaign suggestion carries exactly five Create
\* rows, in the order Campaign, Ad Group, Product Ad, Keyword, Campaign
\* Negative Keyword; the Keyword row is enabled, of Match Type Exact, with
\* the row's term as its text; the negative row is of Match Type Negative
\* Exact; the first four rows name the new campaign and the negative row
\* names the source campaign of the search term, not the new one.
C14_FiveCreateRows ==
    \A i \in OfCategory("Create Exact Campaign") :
        LET rows == suggestions[i].actions
        IN  /\ Len(rows) = 5
            /\ [n \in 1..5 |-> rows[n].Entity]
                   = <<"Campaign", "Ad Group", "Product Ad", "Keyword",
                       "Campaign Negative Keyword">>
            /\ \A n \in 1..5 : rows[n].Operation = "Create"
            /\ rows[4].State = "enabled"
            /\ rows[4]["Match Type"] = "Exact"
            /\ rows[4]["Keyword Text"] = TermOf(i)
            /\ rows[5]["Match Type"] = "Negative Exact"
            /\ \A n \in 1..4 : /\ rows[n]["Campaign ID"] = rows[1]["Campaign ID"]
                               /\ rows[n]["Campaign Name"] = rows[1]["Campaign Name"]
            /\ rows[5]["Campaign ID"] # rows[1]["Campaign ID"]
            /\ \E a \in 1..Len(search_terms) :
                   /\ search_terms[a].search_term = TermOf(i)
                   /\ rows[5]["Campaign ID"] = search_terms[a].campaign_id
                   /\ rows[5]["Campaign Name"] = search_terms[a].campaign_name
                   /\ rows[5]["Keyword Text"] = search_terms[a].search_term

\* A suggestion made for a term spelled with capitals and doubled
\* whitespace: the term is the keyword text as spelled, and the negative
\* row is on source campaign 100
C14_Witness ==
    /\ pc = "done"
    /\ \E i \in OfCategory("Create Exact Campaign") :
           /\ Len(suggestions[i].actions) = 5
           /\ suggestions[i].actions[4]["Keyword Text"] = Great2
           /\ suggestions[i].actions[5]["Campaign ID"] = <<"100">>
           /\ suggestions[i].actions[1]["Campaign Name"]
                  = <<"SP Kw Ex", " ">> \o Great2 \o <<" ", "-", " ">> \o <<"B0TEST1234">>

\* The default thresholds of generator A, on a row's own figures: the
\* source is not exact, orders exceed orders_create_exact and orders /
\* clicks (0 without clicks) is at least cvr_create_exact
ExactDefaultPass(r) ==
    /\ IsNonExactSource(r.source_type)
    /\ r.orders > t.orders_create_exact
    /\ IF r.clicks = 0 THEN 0 >= t.cvr_create_exact
       ELSE 100 * r.orders >= t.cvr_create_exact * r.clicks

\* The rows a Create Exact Campaign suggestion can have been made for
RowsOfExact(i) ==
    {a \in 1..Len(search_terms) :
        /\ search_terms[a].search_term = TermOf(i)
        /\ search_terms[a].campaign_id = SourceCampaignOf(i)
        /\ search_terms[a].orders = suggestions[i].metrics.orders
        /\ search_terms[a].clicks = suggestions[i].metrics.clicks
        /\ search_terms[a].spend = suggestions[i].metrics.spend
        /\ search_terms[a].sales = suggestions[i].metrics.sales}

\* C15: when no custom exact rule matches a row, the row yields a Create
\* Exact Campaign suggestion only if its source is not exact, its orders
\* exceed orders_create_exact and its CVR is at least cvr_create_exact; a
\* term none of whose rows passes yields nothing.
C15_ExactDefaultGate ==
    pc = "done" =>
        /\ \A i \in OfCategory("Create Exact Campaign") :
               \E a \in RowsOfExact(i) :
                   \/ RuleHit(SearchTermData(search_terms[a]), "exact")
                   \/ ExactDefaultPass(search_terms[a])
        /\ \A a \in 1..Len(search_terms) :
               ( \A b \in 1..Len(search_terms) :
                     Words(search_terms[b].search_term) = Words(search_terms[a].search_term)
                     => /\ ~RuleHit(SearchTermData(search_terms[b]), "exact")
                        /\ ~ExactDefaultPass(search_terms[b]) )
               => \A i \in OfCategory("Create Exact Campaign") :
                      Words(TermOf(i)) # Words(search_terms[a].search_term)

\* Without custom rules, a row with orders at the threshold is followed by a
\* row of the same term that passes: one suggestion, made for the second
C15_Witness ==
    /\ pc = "done"
    /\ CustomRules(t, "exact") = <<>>
    /\ existing_exact_keywords = {}
    /\ Len(search_terms) = 2
    /\ search_terms[1].orders = t.orders_create_exact
    /\ IsNonExactSource(search_terms[1].source_type)
    /\ ExactDefaultPass(search_terms[2])
    /\ Words(search_terms[1].search_term) = Words(search_terms[2].search_term)
    /\ \E i \in OfCategory("Create Exact Campaign") :
           /\ OfCategory("Create Exact Campaign") = {i}
           /\ RowsOfExact(i) = {2}

\* The Pause Campaigns suggestions made for a campaign
PausesOf(cid) ==
    {i \in OfCategory("Pause Campaigns") : suggestions[i].actions[1]["Campaign ID"] = cid}

\* C16: a campaign that no custom pause rule matches yields exactly one
\* Pause Campaigns suggestion, of severity high with one Campaign Update row
\* of State paused, if and only if its spend is at least
\* spend_campaign_pause and it has no orders; otherwise it yields none.
C16_PauseCampaignDefaultGate ==
    pc = "done" =>
        /\ \A x \in 1..Len(campaigns) :
               LET c == campaigns[x]
               IN  ~RuleHit(CampaignPauseData(c), "pause") =>
                       Cardinality(PausesOf(c.campaign_id))
                           = IF c.spend >= t.spend_campaign_pause /\ c.orders = 0
                             THEN 1 ELSE 0
        /\ \A i \in OfCategory("Pause Campaigns") :
               /\ suggestions[i].severity = "high"
               /\ Len(suggestions[i].actions) = 1
               /\ suggestions[i].actions[1].Entity = "Campaign"
               /\ suggestions[i].actions[1].Operation = "Update"
               /\ suggestions[i].actions[1].State = "paused"
               /\ \E x \in 1..Len(campaigns) :
                      /\ campaigns[x].campaign_id = suggestions[i].actions[1]["Campaign ID"]
                      /\ campaigns[x].name = suggestions[i].actions[1]["Campaign Name"]

\* Without custom rules: a campaign with spend over the floor and no orders
\* gets its one suggestion
C16_Witness ==
    /\ pc = "done"
    /\ CustomRules(t, "pause") = <<>>
    /\ Len(campaigns) = 1
    /\ campaigns[1].spend >= t.spend_campaign_pause
    /\ campaigns[1].orders = 0
    /\ Cardinality(PausesOf(campaigns[1].campaign_id)) = 1
    /\ Cardinality(OfCategory("Pause Campaigns")) = 1

\* A placement classified ineffective, its percentage aside: it has spend,
\* and a custom placement rule matches it or else its ACOS is over the
\* threshold
ClassedIneffective(p) ==
    /\ p.spend > 0
    /\ \/ RuleHit(PlacementData(p), "placement")
       \/ p.acos > 100 * t.acos_ineffective

\* The campaign has an ineffective placement with a nonzero percentage
HasLiveIneffective(cid) ==
    \E i \in 1..Len(placements) :
        /\ placements[i].campaign_id = cid
        /\ ClassedIneffective(placements[i])
        /\ placements[i].percentage # 0

\* C17: optimize-placement emits nothing, neither placement rows nor target
\* bid rows, for a campaign none of whose ineffective placements has a
\* nonzero current percentage: all its placements are effective, or every
\* ineffective one is at 0% already.
C17_NoLiveIneffectiveNoSuggestion ==
    \A i \in OfCategory("Placement Optimization") :
        \A n \in 1..Len(suggestions[i].actions) :
            HasLiveIneffective(suggestions[i].actions[n]["Campaign ID"])

\* A campaign the generator looks at, with enabled targets, whose only
\* ineffective placement is at 0%: no Placement Optimization suggestion
C17_Witness ==
    /\ pc = "done"
    /\ Len(campaigns) = 1
    /\ OptimizeEligible(campaigns[1])
    /\ TargetsByCamp(targets, campaigns[1].campaign_id) # <<>>
    /\ \E i \in 1..Len(placements) :
           /\ placements[i].campaign_id = campaigns[1].campaign_id
           /\ ClassedIneffective(placements[i])
           /\ placements[i].percentage = 0
    /\ \E i \in 1..Len(placements) :
           /\ placements[i].campaign_id = campaigns[1].campaign_id
           /\ placements[i].spend > 0
           /\ ~ClassedIneffective(placements[i])
    /\ ~HasLiveIneffective(campaigns[1].campaign_id)
    /\ OfCategory("Placement Optimization") = {}

\* The outputs of the six generators on the inputs of the run, in the order
\* A to F
GeneratorOutputs ==
    << CreateExactCampaigns(search_terms, {NormKw(k) : k \in existing_exact_keywords},
                            campaigns, product_ads, portfolios, t).out,
       NegativeSearchTerms(search_terms, existing_negatives, t),
       PauseCampaigns(campaigns, t),
       PauseTargets(targets, targets, t),
       OptimizePlacements(campaigns, placements, targets, t),
       IncreaseBids(campaigns, placements, targets, t) >>

\* A suggestion without the id the orchestrator gave it
WithoutId(s) == [k \in DOMAIN s \ {"id"} |-> s[k]]

\* The place of a category in the order of the generators
CategoryRank(cat) ==
    CASE cat = "Create Exact Campaign" -> 1
      [] cat = "Search Term Negatives" -> 2
      [] cat = "Pause Campaigns" -> 3
      [] cat = "Pause Targets" -> 4
      [] cat = "Placement Optimization" -> 5
      [] cat = "Increase Bids" -> 6

\* C18: generate_suggestions returns the outputs of the six generators
\* concatenated in the order create-exact, negatives, pause-campaign,
\* pause-target, optimize-placement, increase-bids, nothing dropped, merged
\* or re-sorted, and gives every suggestion an id no other suggestion of the
\* run has.
C18_GeneratorOrder ==
    pc = "done" =>
        LET g == GeneratorOutputs
        IN  /\ [i \in 1..Len(suggestions) |-> WithoutId(suggestions[i])]
                   = g[1] \o g[2] \o g[3] \o g[4] \o g[5] \o g[6]
            /\ \A i, j \in 1..Len(suggestions) :
                   i < j => CategoryRank(suggestions[i].category)
                                <= CategoryRank(suggestions[j].category)
            /\ \A i \in 1..Len(suggestions) : "id" \in DOMAIN suggestions[i]
            /\ \A i, j \in 1..Len(suggestions) :
                   i # j => suggestions[i].id # suggestions[j].id

\* A run that returns a suggestion of severity medium before one of severity
\* high, both with their ids
C18_Witness ==
    /\ pc = "done"
    /\ \E i, j \in 1..Len(suggestions) :
           /\ i < j
           /\ suggestions[i].category = "Create Exact Campaign"
           /\ suggestions[i].severity = "medium"
           /\ suggestions[j].category = "Search Term Negatives"
           /\ suggestions[j].severity = "high"
           /\ suggestions[i].id # suggestions[j].id

\* C19: a row that lacks a required field is skipped and does not abort the
\* batch: generate_suggestions never ends by raising, whatever rows it is
\* given.
C19_MalformedRowSkipped == pc # "raised"

---------------------------------------------------------------------------
(* Properties of the serializer *)

\* The action rows of the selected suggestions from the i-th on, in
\* suggestion order and then action order
RECURSIVE SelectedActionsFrom(_)
SelectedActionsFrom(i) ==
    IF i > Len(selected_suggestions) THEN <<>>
    ELSE Get(selected_suggestions[i], "actions", <<>>) \o SelectedActionsFrom(i + 1)

SelectedActions == SelectedActionsFrom(1)

\* The column is missing from the action or holds None
Unset(action, col) == col \notin DOMAIN action \/ action[col].k = "none"

\* The cell the column of an action is written to
ExpectedCell(action, col) ==
    IF Unset(action, col)
    THEN IF col = "Product" THEN Text(<<"Sponsored Products">>) ELSE Text(<<>>)
    ELSE LET val == action[col]
         IN  IF col = "Product" /\ (IF val.k = "num" THEN val.v = 0 ELSE val.v = <<>>)
             THEN Text(<<"Sponsored Products">>)
             ELSE IF val.k = "num" THEN Num(val.v)
             ELSE IF val.k = "str" THEN Text(val.v)
             ELSE [k |-> "str", v |-> PyStr(val)]

\* C20: the worksheet build_bulk_xlsx returns has the header row of the
\* fixed column list followed by exactly one data row per action row, in
\* suggestion order and then action order (an empty selection gives the
\* header alone); a Product that is unset or empty is written as
\* "Sponsored Products", a number stays a number and every other value is
\* written as its string form (an unset value as the empty string).
C20_SerializerRows ==
    bulk_pc = "returned" =>
        LET acts == SelectedActions
        IN  /\ Len(bulk_ws) = 1 + Len(acts)
            /\ Len(bulk_ws[1]) = Len(BULK_COLS)
            /\ \A c \in 1..Len(BULK_COLS) :
                   bulk_ws[1][c].k = "str" /\ bulk_ws[1][c].v = <<BULK_COLS[c]>>
            /\ selected_suggestions = <<>> => Len(bulk_ws) = 1
            /\ \A n \in 1..Len(acts) :
                   /\ Len(bulk_ws[n + 1]) = Len(BULK_COLS)
                   /\ \A c \in 1..Len(BULK_COLS) :
                          LET cell == bulk_ws[n + 1][c]
                              exp  == ExpectedCell(acts[n], BULK_COLS[c])
                          IN  cell.k = exp.k /\ cell.v = exp.v

\* A workbook returned for two suggestions with three action rows, with a
\* number kept, a list written as text and a Product filled in
C20_Witness ==
    /\ bulk_pc = "returned"
    /\ Len(selected_suggestions) = 2
    /\ Len(bulk_ws) = 4
    /\ \E c \in 1..Len(BULK_COLS) : bulk_ws[2][c].k = "num"
    /\ "Product" \notin DOMAIN SelectedActions[2]
    /\ bulk_ws[3][1] = Text(<<"Sponsored Products">>)
    /\ bulk_ws[4][17] = Text(<<"[", "'", "SKU-1", "'", ",", " ", "'", "SKU-2", "'", "]">>)

---------------------------------------------------------------------------
(* Properties of the policy merge *)

\* C21: once generate_suggestions has merged the policy, the effective
\* policy maps every key of the override to the override's value and every
\* other key to its value in DEFAULTS, and the DEFAULTS dict is what it was
\* before the call.
C21_OverridesOnlyGivenKeys ==
    /\ defaults = DEFAULTS
    /\ pc \notin {"off", "policy"} =>
           /\ DOMAIN t = DOMAIN DEFAULTS \cup DOMAIN thresholds
           /\ \A k \in DOMAIN thresholds : t[k] = thresholds[k]
           /\ \A k \in DOMAIN DEFAULTS \ DOMAIN thresholds : t[k] = DEFAULTS[k]

\* A finished run whose override sets two thresholds and the custom rules
\* and leaves the other keys to DEFAULTS
C21_Witness ==
    /\ pc = "done"
    /\ DOMAIN thresholds = {"bid_reduction_ratio", "max_placement_pct", "custom_rules"}
    /\ t.max_placement_pct = 100 /\ DEFAULTS.max_placement_pct = 900
    /\ t.acos_ineffective = DEFAULTS.acos_ineffective
    /\ suggestions # <<>>

---------------------------------------------------------------------------
(* Properties of the action lists *)

\* C22: every suggestion of every generator has at least one action row,
\* and a generator none of whose input rows qualifies contributes no
\* suggestion at all.
C22_ActionsNonEmpty ==
    /\ \A i \in 1..Len(suggestions) : suggestions[i].actions # <<>>
    /\ pc = "done" =>
           /\ (\A a \in 1..Len(search_terms) : ~ExactActs(search_terms[a]))
                  => OfCategory("Create Exact Campaign") = {}
           /\ (\A a \in 1..Len(search_terms) : ~NegActs(search_terms[a]))
                  => OfCategory("Search Term Negatives") = {}
           /\ (\A x \in 1..Len(campaigns) : ~PauseCampaignActs(campaigns[x]))
                  => OfCategory("Pause Campaigns") = {}
           /\ (\A g \in 1..Len(targets) : ~PauseTargetActs(targets[g]))
                  => OfCategory("Pause Targets") = {}
           /\ (\A x \in 1..Len(campaigns) : ~HasLiveIneffective(campaigns[x].campaign_id))
                  => OfCategory("Placement Optimization") = {}
           /\ (\A x \in 1..Len(campaigns) : ~IncreaseActs(campaigns[x]))
                  => OfCategory("Increase Bids") = {}

\* A run with a suggestion, in which a campaign passes the gate of
\* increase-bids under its ceiling but has neither an enabled target nor a
\* placement: no Increase Bids suggestion is made for it
C22_Witness ==
    /\ pc = "done"
    /\ suggestions # <<>>
    /\ \E x \in 1..Len(campaigns) :
           /\ IncreaseActs(campaigns[x])
           /\ UnderCeiling(campaigns[x])
           /\ TargetsByCamp(targets, campaigns[x].campaign_id) = <<>>
           /\ PlcByCamp(placements, campaigns[x].campaign_id) = <<>>
    /\ OfCategory("Increase Bids") = {}

---------------------------------------------------------------------------
(* Properties of the dedup sets *)

\* The dedup key of a Search Term Negatives suggestion
NegativeKeyOf(i) == SourceCampaignOf(i) \o <<"|">> \o NormKw(TermOf(i))

\* C23 as claimed: once the negative-search-term generator has returned,
\* the known-negative set holds the (campaign, normalized term) key of every
\* negative suggestion it emitted.
C23_NegativesRecorded ==
    pc \in {"C", "D", "E", "F", "ids", "done"} =>
        \A i \in OfCategory("Search Term Negatives") :
            NegativeKeyOf(i) \in existing_negatives

---------------------------------------------------------------------------
(* Properties of direct calls of the generators *)

\* C24: whatever the order in which the six generators are called on one
\* snapshot, one policy and one pair of dedup sets, the first call of each
\* returns the list it returns in the orchestrator's order A to F.
C24_OrderIndependent ==
    pc = "calls" =>
        LET g == GeneratorOutputs
        IN  /\ calls.A # <<>> => calls.A[1] = g[1]
            /\ calls.B # <<>> => calls.B[1] = g[2]
            /\ calls.C # <<>> => calls.C[1] = g[3]
            /\ calls.D # <<>> => calls.D[1] = g[4]
            /\ calls.E # <<>> => calls.E[1] = g[5]
            /\ calls.F # <<>> => calls.F[1] = g[6]

\* The generators B to F have been called and each has returned a
\* suggestion, among them a campaign pause and a target pause in one
\* campaign; generator A has not been called yet
C24_Witness ==
    /\ pc = "calls"
    /\ calls.A = <<>>
    /\ \A x \in {"B", "C", "D", "E", "F"} : calls[x] # <<>> /\ calls[x][1] # <<>>
    /\ calls.C[1][1].actions[1]["Campaign ID"] = calls.D[1][1].actions[1]["Campaign ID"]
    /\ \E i \in 1..Len(search_terms) : ExactActs(search_terms[i])

\* C28: once create-exact-campaign has been called, the known-exact set of
\* the caller is its initial contents together with the normalized terms of
\* the suggestions the first call emitted, and every later call with the
\* same search terms, policy and set emits nothing.
C28_RepeatedCallEmitsNothing ==
    (pc = "calls" /\ calls.A # <<>>) =>
        /\ existing_exact =
               {NormKw(k) : k \in existing_exact_keywords}
               \cup {NormKw(calls.A[1][i].metrics.search_term) : i \in 1..Len(calls.A[1])}
        /\ \A k \in 2..Len(calls.A) : calls.A[k] = <<>>

\* A first call emitted a suggestion and a second call has returned
C28_Witness ==
    /\ pc = "calls"
    /\ Len(calls.A) >= 2
    /\ calls.A[1] # <<>>
    /\ calls.A[2] = <<>>
    /\ existing_exact # {NormKw(k) : k \in existing_exact_keywords}

---------------------------------------------------------------------------
(* Properties of the baseline of optimize-placement *)

\* The campaign of a Placement Optimization suggestion
OptimizedCampaign(i) == CampById(campaigns, suggestions[i].actions[1]["Campaign ID"])

\* Its placements, in input order
OptimizedPlacements(i) == PlcByCamp(placements, suggestions[i].actions[1]["Campaign ID"])

\* The placements of a list classified effective
EffectiveOf(cps) ==
    {k \in 1..Len(cps) : cps[k].spend > 0 /\ ~ClassedIneffective(cps[k])}

\* The names of the placements of a list that are ineffective at a nonzero
\* percentage
IneffectiveNames(cps) == {cps[k].placement : k \in {j \in 1..Len(cps) : PlacementActs(cps[j])}}

\* The placement rows of a suggestion that are not for an ineffective
\* placement
OtherPlacementRows(i) ==
    {n \in 1..Len(suggestions[i].actions) :
        /\ suggestions[i].actions[n].Entity = "Bidding Adjustment"
        /\ suggestions[i].actions[n].Placement
               \notin IneffectiveNames(OptimizedPlacements(i))}

\* The suggestion is computed from the baseline b (<<>> or <<p>>): its new
\* base bid is the one of that baseline, and the placement rows outside the
\* ineffective placements are for the baseline's placement, at the
\* percentage computed for it
ComputedFrom(i, b) ==
    LET plan == PlacementPlan(OptimizedCampaign(i), b, t)
    IN  /\ suggestions[i].metrics.new_base_bid = plan.new_base
        /\ \A n \in OtherPlacementRows(i) :
               /\ b # <<>>
               /\ suggestions[i].actions[n].Placement = b[1].placement
               /\ suggestions[i].actions[n].Percentage = plan.new_best_pct

\* The current whole percentage of the placements of a name
CurrentPcts(cps, name) ==
    {IntOf(cps[k].percentage) : k \in {j \in 1..Len(cps) : cps[j].placement = name}}

\* C25 as claimed: with an effective placement in the campaign, the baseline
\* is an effective placement whose ACOS is the lowest among them; with none,
\* the baseline percentage is 0 and no row raises a placement.
C25_LowestAcosBaseline ==
    \A i \in OfCategory("Placement Optimization") :
        LET cps == OptimizedPlacements(i)
            eff == EffectiveOf(cps)
        IN  IF eff # {}
            THEN \E b \in eff :
                     /\ \A e \in eff : cps[b].acos <= cps[e].acos
                     /\ ComputedFrom(i, <<cps[b]>>)
            ELSE /\ ComputedFrom(i, <<>>)
                 /\ \A n \in 1..Len(suggestions[i].actions) :
                        suggestions[i].actions[n].Entity = "Bidding Adjustment"
                        => \E old \in CurrentPcts(cps, suggestions[i].actions[n].Placement) :
                               suggestions[i].actions[n].Percentage <= old

\* The rank of a placement as baseline: its ACOS, an ACOS of 0 last
BaselineRank(p) == IF p.acos > 0 THEN p.acos ELSE 999900

\* C25 as amended: with an effective placement in the campaign, the baseline
\* is an effective placement of the lowest ACOS above 0, one of ACOS 0 only
\* when all are; with none, the baseline percentage is 0 and every placement
\* row is for an ineffective placement.
C25_LowestPositiveAcosBaseline ==
    \A i \in OfCategory("Placement Optimization") :
        LET cps == OptimizedPlacements(i)
            eff == EffectiveOf(cps)
        IN  IF eff # {}
            THEN \E b \in eff :
                     /\ \A e \in eff : BaselineRank(cps[b]) <= BaselineRank(cps[e])
                     /\ ComputedFrom(i, <<cps[b]>>)
            ELSE /\ ComputedFrom(i, <<>>)
                 /\ OtherPlacementRows(i) = {}

\* A suggestion for a campaign with two effective placements, one of ACOS 0
\* and one of ACOS 20%: the row is for the latter
C25_Witness ==
    /\ pc = "done"
    /\ \E i \in OfCategory("Placement Optimization") :
           LET cps == OptimizedPlacements(i)
               eff == EffectiveOf(cps)
           IN  /\ \E a, b \in eff : cps[a].acos = 0 /\ cps[b].acos > 0
               /\ \E n \in OtherPlacementRows(i) :
                      suggestions[i].actions[n].Placement = "Placement Rest Of Search"

\* The distance of two integers
Dist(a, b) == IF a >= b THEN a - b ELSE b - a

\* The baseline figures of a suggestion whose baseline is the placement b:
\* base_bid = round(cpc / (1 + best_pct / 100), 2) in cents, the percentage
\* of b in hundredths, and the percentage solved for before the cap
BaselineFigures(i, b) ==
    LET cpc      == OptimizedCampaign(i).cpc
        base_bid == Round(cpc * 10000, 10000 + b.percentage)
        new_base == suggestions[i].metrics.new_base_bid
    IN  [base_bid |-> base_bid, new_base |-> new_base, best_pct |-> b.percentage,
         uncut |-> Round(base_bid * (10000 + b.percentage), 100 * new_base) - 100]

\* C26: when the cap max_placement_pct does not cut the new percentage of
\* the best placement, new_base * (1 + new_best_pct / 100) differs from
\* base_bid * (1 + best_pct / 100) by at most new_base * 0.005, with
\* new_base = max(0.02, round(base_bid * bid_reduction_ratio, 2)).
\* Both sides are compared in ten-thousandths of a cent.
C26_EffectiveCpcPreserved ==
    \A i \in OfCategory("Placement Optimization") :
        \A n \in OtherPlacementRows(i) :
            LET cps == OptimizedPlacements(i)
                row == suggestions[i].actions[n]
            IN  \E b \in EffectiveOf(cps) :
                    LET f == BaselineFigures(i, cps[b])
                    IN  /\ cps[b].placement = row.Placement
                        /\ \A e \in EffectiveOf(cps) :
                               BaselineRank(cps[b]) <= BaselineRank(cps[e])
                        /\ f.new_base = Max(2, Round(f.base_bid * t.bid_reduction_ratio, 100))
                        /\ f.uncut <= t.max_placement_pct =>
                               /\ row.Percentage = f.uncut
                               /\ Dist(f.new_base * (10000 + 100 * row.Percentage),
                                       f.base_bid * (10000 + f.best_pct))
                                      <= 50 * f.new_base

\* A suggestion whose row for the best placement is not cut by the cap and
\* where the whole percentage does not give the old effective CPC exactly
C26_Witness ==
    /\ pc = "done"
    /\ \E i \in OfCategory("Placement Optimization") :
           \E n \in OtherPlacementRows(i) :
               LET cps == OptimizedPlacements(i)
                   row == suggestions[i].actions[n]
               IN  \E b \in EffectiveOf(cps) :
                       LET f == BaselineFigures(i, cps[b])
                       IN  /\ cps[b].placement = row.Placement
                           /\ row.Percentage = f.uncut
                           /\ f.uncut < t.max_placement_pct
                           /\ f.new_base * (10000 + 100 * row.Percentage)
                                  # f.base_bid * (10000 + f.best_pct)

\* C27 as claimed: optimize-placement makes no suggestion for a campaign all
\* of whose placements keep their percentage: a Placement Optimization
\* suggestion has a row that changes the percentage of a placement, with or
\* without enabled targets in the campaign.
C27_NoChangeNoSuggestion ==
    \A i \in OfCategory("Placement Optimization") :
        \E n \in 1..Len(suggestions[i].actions) :
            suggestions[i].actions[n].Entity = "Bidding Adjustment"

\* The targets whose bids generators E and F update: the enabled targets of
\* the campaign with a positive bid, in input order
BidTargets(cid) ==
    SelectSeq(targets, LAMBDA g : g.campaign_id = cid /\ ActiveTarget(g) /\ g.bid > 0)

\* C29: increase-bids never lowers a bid. When the step in force is
\* positive, every Keyword or Product Targeting row of an Increase Bids
\* suggestion carries a Bid at least the current bid of its target, and the
\* suggested CPC is at least the current CPC of the campaign.
C29_NeverLowersBid ==
    \A i \in OfCategory("Increase Bids") :
        LET c    == IncreasedCampaign(i)
            tb   == BidTargets(c.campaign_id)
            acts == suggestions[i].actions
        IN  IncreaseActsStep(c) > 0 =>
                /\ suggestions[i].metrics.current_cpc = c.cpc
                /\ suggestions[i].metrics.suggested_cpc >= c.cpc
                /\ \A n \in 1..Len(acts) :
                       acts[n].Entity \in {"Keyword", "Product Targeting"} =>
                           /\ n <= Len(tb)
                           /\ acts[n].Entity = tb[n].entity
                           /\ acts[n].Bid >= tb[n].bid

\* An Increase Bids suggestion that raises the CPC and the bid of a target
C29_Witness ==
    \E i \in OfCategory("Increase Bids") :
        LET c  == IncreasedCampaign(i)
            tb == BidTargets(c.campaign_id)
        IN  /\ IncreaseActsStep(c) > 0
            /\ suggestions[i].metrics.suggested_cpc > c.cpc
            /\ tb # <<>>
            /\ suggestions[i].actions[1].Entity = "Keyword"
            /\ suggestions[i].actions[1].Bid > tb[1].bid

\* The rows of the run that pause a campaign: Entity Campaign, Operation
\* Update, State paused
CampaignPauseRows ==
    {x \in ActionRows : /\ RowAt(x).Entity = "Campaign"
                        /\ RowAt(x).Operation = "Update"
                        /\ RowAt(x).State = "paused"}

\* C30 as claimed: within one run no campaign is paused by more than one
\* action row, over all suggestions: the pause-campaign generator and the
\* sole-target branch of the pause-target generator never both pause one
\* campaign.
C30_CampaignPausedOnce ==
    \A x, y \in CampaignPauseRows :
        RowAt(x)["Campaign ID"] = RowAt(y)["Campaign ID"] => x = y


=============================================================================
